---------------------------- MODULE Spec2Model ----------------------------
(***************************************************************************)
(* A model of the medusa fuzzing engine: the coverage tracer, the          *)
(* call-sequence generator and the fuzzer worker (sequence testing, the    *)
(* shrinker and the worker's main loop).                                   *)
(*                                                                         *)
(* Three specifications share the module's variables:                      *)
(*   SpecTracer  the CoverageTracer driven by the EVM's callbacks          *)
(*   SpecGen     the CallSequenceGenerator of one worker (and SpecDet,     *)
(*               two runs of it from the same seed)                        *)
(*   SpecWorker  FuzzerWorker.run with testNextCallSequence and the        *)
(*               shrinker                                                  *)
(***************************************************************************)
EXTENDS Integers, Sequences, FiniteSets, Bags, TLC

NULL == "nil"

Min(a, b) == IF a <= b THEN a ELSE b

Max(a, b) == IF a >= b THEN a ELSE b

(***************************************************************************)
(* 64-bit and 256-bit machine words.  A uint64 is a tuple of four 16-bit   *)
(* limbs, least significant first; a uint256 is modelled with a fifth limb *)
(* standing for bits 64..255, which Uint64() drops.                        *)
(***************************************************************************)
LimbBase == 65536

RECURSIVE Xor16(_, _)
Xor16(a, b) ==
    IF a = 0 THEN b
    ELSE IF b = 0 THEN a
    ELSE (((a % 2) + (b % 2)) % 2) + 2 * Xor16(a \div 2, b \div 2)

Xor64(a, b) == [i \in 1..4 |-> Xor16(a[i], b[i])]

\* bits.RotateLeft64(x, 32): the two 32-bit halves swap
RotateLeft64by32(x) == <<x[3], x[4], x[1], x[2]>>

\* uint256.NewInt(n) for a uint64 n
NewInt(x) == <<x[1], x[2], x[3], x[4], 0>>

\* (*uint256.Int).Uint64(): the low 64 bits
Uint64(z) == <<z[1], z[2], z[3], z[4]>>

\* (*uint256.Int).IsZero()
IsZero(z) == \A i \in 1..5 : z[i] = 0

RECURSIVE AddCarry(_, _, _)
AddCarry(z, i, c) ==
    IF i > Len(z) \/ c = 0 THEN z
    ELSE AddCarry([z EXCEPT ![i] = (z[i] + c) % LimbBase], i + 1, (z[i] + c) \div LimbBase)

\* new(uint256.Int).Add(z, uint256.NewInt(1))
AddOne(z) == AddCarry(z, 1, 1)

\* a small natural as a uint64 / uint256
U64(n) == <<n % LimbBase, n \div LimbBase, 0, 0>>

U256(n) == NewInt(U64(n))

(***************************************************************************)
(* Coverage maps: a success channel and a reverted channel of hit counts,  *)
(* keyed by (lookup hash, marker).                                         *)
(***************************************************************************)
NewCoverageMaps == [succ |-> EmptyBag, rev |-> EmptyBag]

\* CoverageMaps.SetAt: one more success hit at the key
SetAt(m, key) == [m EXCEPT !.succ = @ (+) SetToBag({key})]

\* CoverageMaps.RevertAll: success hits move to the reverted channel
RevertAll(m) == [succ |-> EmptyBag, rev |-> m.rev (+) m.succ]

\* CoverageMaps.Update: merge another map into this one, channel by channel
Update(m, other) == [succ |-> m.succ (+) other.succ, rev |-> m.rev (+) other.rev]

\* getContractCoverageMapHash(code, create)
getContractCoverageMapHash(code, create) == <<code, create>>

VARIABLES
    \* CoverageTracer
    coverageMaps,      \* t.coverageMaps
    callFrameStates,   \* t.callFrameStates
    callDepth,         \* t.callDepth
    tracerResults,     \* results.AdditionalResults["CoverageTracerResults"]
    tphase,            \* where the EVM is in its callback protocol
    frameLog,          \* per frame entered in this transaction: parent, code, status, hits emitted
    openFrames,        \* ids (indexes of frameLog) of the frames now active, outermost first
    lastStep,          \* the last CaptureState call: its inputs and the marker it recorded
    stepCount          \* CaptureState calls in this transaction

tracerVars == <<coverageMaps, callFrameStates, callDepth, tracerResults, tphase,
                frameLog, openFrames, lastStep, stepCount>>

VARIABLES
    \* FuzzerWorker: deployed contracts and method lists; fuzzing configuration
    deployedContracts,        \* fw.deployedContracts: address -> contract definition
    stateChangingMethods,     \* fw.stateChangingMethods
    pureMethods,              \* fw.pureMethods
    valueSetAddresses,        \* the addresses in fw.valueSet
    testingConfig,            \* config.Fuzzing.Testing: TestAllContracts,
                              \* StopOnFailedContractMatching, AssertionTesting.TestViewMethods
    maxBlockNumberDelay,      \* config.Fuzzing.MaxBlockNumberDelay
    maxBlockTimestampDelay,   \* config.Fuzzing.MaxBlockTimestampDelay
    eventResult,              \* what the last deployment event handler returned
    lastElement               \* what generateNewElement returned on the current lists

elemVars == <<deployedContracts, stateChangingMethods, pureMethods, valueSetAddresses,
              testingConfig, maxBlockNumberDelay, maxBlockTimestampDelay, eventResult,
              lastElement>>

VARIABLES
    \* two runs of a worker's generator from the same seed
    detRuns,                  \* run -> its deployedContracts and method lists
    detOut                    \* run -> the elements it generated so far

detVars == <<detRuns, detOut>>

VARIABLES
    \* CallSequenceGenerator, its configuration and the corpus it samples
    config,                   \* g.config: strategy weights, NewSequenceProbability
    callSequenceLength,       \* config.Fuzzing.CallSequenceLength
    corpusSequences,          \* the corpus's mutable sequences
    unexecutedQueue,          \* the corpus's sequences loaded but not yet executed
    baseSequence,             \* g.baseSequence
    fetchIndex,               \* g.fetchIndex
    prefetchModifyCallFunc,   \* g.prefetchModifyCallFunc
    generatorPanic,           \* a runtime panic was raised in the generator
    genResult,                \* what the last generator call returned
    genCall                   \* the sequence being served: where InitializeNextSequence
                              \* is, what it saw and left, what was popped since

genVars == <<config, callSequenceLength, corpusSequences, unexecutedQueue, baseSequence,
             fetchIndex, prefetchModifyCallFunc, generatorPanic, genResult, genCall>>

VARIABLES
    \* FuzzerWorker.run and what it calls
    wpc,                          \* where the worker is in run
    ctxDone,                      \* fuzzer.ctx is done
    chain,                        \* the worker chain's blocks above the setup
    testingBaseBlockNumber,       \* fw.testingBaseBlockNumber
    sequencesTested,              \* run's local counter
    workerResetLimit,             \* config.Fuzzing.WorkerResetLimit
    shrinkLimitConfig,            \* config.Fuzzing.ShrinkLimit
    workerMetrics,                \* the worker's metrics slot
    exec,                         \* ExecuteCallSequenceIteratively in progress
    isNewSequence,                \* testNextCallSequence's local
    shrinkCallSequenceRequests,   \* testNextCallSequence's local
    tncsResult,                   \* what testNextCallSequence returned
    tscsResult,                   \* what testShrunkenCallSequence returned
    shrinkResult,                 \* what shrinkCallSequence returned
    runResult,                    \* what run returned
    shrink,                       \* shrinkCallSequence's locals
    workerLog,                    \* the calls made on corpus, chain and hooks
    testNextCalls,                \* number of testNextCallSequence calls
    revertFailed                  \* a deferred RevertToBlockNumber has failed

workerVars == <<wpc, ctxDone, chain, testingBaseBlockNumber, sequencesTested,
                workerResetLimit, shrinkLimitConfig, workerMetrics, exec, isNewSequence,
                shrinkCallSequenceRequests, tncsResult, tscsResult, shrinkResult,
                runResult, shrink, workerLog, testNextCalls, revertFailed>>

VARIABLES
    \* AnalyzeSourceCoverage and GenerateLCOVReport
    sphase,                       \* which of the two has run
    sourceMap,                    \* the contract's parsed runtime source map
    sourceCodeCached,             \* compilation.SourceCode held every source
    filteredMap,                  \* what filterSourceMaps made of sourceMap
    sourceAnalysis,               \* the SourceAnalysis returned
    analysisErr,                  \* the error returned
    lcovReport                    \* the records of the LCOV report

sourceVars == <<sphase, sourceMap, sourceCodeCached, filteredMap, sourceAnalysis,
                analysisErr, lcovReport>>

VARIABLES
    \* the earlier shrinkCallSequence, which deletes one element at a time
    greedy                        \* its arguments, locals and results

greedyVars == <<greedy>>

\*VARS
vars == <<tracerVars, elemVars, detVars, genVars, workerVars, sourceVars, greedyVars>>

(***************************************************************************)
(* Bounds and input sets of the tracer.                                    *)
(***************************************************************************)
MaxFrames == 3

MaxSteps == 2

Codes == {"codeA"}

Ops == {"JUMP", "JUMPI", "PUSH1"}

ProgramCounters == {U64(4)}

\* stack items: small destinations, and one with bits set above bit 31 and above bit 63
StackTops == {U256(6), <<7, 0, 1, 0, 1>>}

\* conditions: zero, one, and a value that is non-zero only above bit 63
StackConds == {U256(0), <<0, 0, 0, 0, 1>>}

CallTypes == {"CALL", "CREATE2"}

NoStep == [op |-> NULL]

TracerInit ==
    /\ coverageMaps = NewCoverageMaps
    /\ callFrameStates = <<>>
    /\ callDepth = 0
    /\ tracerResults = NULL
    /\ tphase = "idle"
    /\ frameLog = <<>>
    /\ openFrames = <<>>
    /\ lastStep = NoStep
    /\ stepCount = 0

NewFrameState(create) ==
    [create |-> create, pendingCoverageMap |-> NewCoverageMaps, lookupHash |-> NULL]

\* the frame's pending map was not yet merged into another map
NotMerged == -1

\* the map that receives the merge of the outermost frame: t.coverageMaps
TransactionMap == 0

NewFrameLog(parent, code) ==
    [parent |-> parent, code |-> code, status |-> "open", hits |-> EmptyBag,
     merges |-> 0, mergedInto |-> NotMerged]

CaptureTxStart ==
    /\ tphase \in {"idle", "published"}
    /\ callDepth' = 0
    /\ coverageMaps' = NewCoverageMaps
    /\ callFrameStates' = <<>>
    /\ tphase' = "txstart"
    /\ frameLog' = <<>>
    /\ openFrames' = <<>>
    /\ lastStep' = NoStep
    /\ stepCount' = 0
    /\ tracerResults' = NULL

CaptureStart(create, code) ==
    /\ tphase = "txstart"
    /\ callFrameStates' = Append(callFrameStates, NewFrameState(create))
    /\ frameLog' = Append(frameLog, NewFrameLog(0, code))
    /\ openFrames' = <<Len(frameLog) + 1>>
    /\ tphase' = "running"
    /\ UNCHANGED <<coverageMaps, callDepth, tracerResults, lastStep, stepCount>>

CaptureEnter(typ, code) ==
    /\ tphase = "running"
    /\ Len(frameLog) < MaxFrames
    /\ callDepth' = callDepth + 1
    /\ callFrameStates' =
           Append(callFrameStates, NewFrameState(typ = "CREATE" \/ typ = "CREATE2"))
    /\ frameLog' = Append(frameLog, NewFrameLog(openFrames[Len(openFrames)], code))
    /\ openFrames' = Append(openFrames, Len(frameLog) + 1)
    /\ UNCHANGED <<coverageMaps, tracerResults, tphase, lastStep, stepCount>>

\* the destination CaptureState computes for a JUMPI step
JumpiPos(pc, top, cond) ==
    IF ~IsZero(cond) THEN AddOne(NewInt(pc)) ELSE top

\* the destination CaptureState computes: NULL when the opcode is not observed
StatePos(pc, op, top, cond) ==
    IF op = "JUMPI" THEN JumpiPos(pc, top, cond)
    ELSE IF op = "JUMP" THEN top
    ELSE NULL

\* marker := bits.RotateLeft64(pc, 32) ^ pos.Uint64()
Marker(pc, pos) == Xor64(RotateLeft64by32(pc), Uint64(pos))

\* getExecFlagsMapping's decoding of a marker: src := marker >> 32 and
\* dst := marker & 0xFFFFFFFF
ExecFlagsSrc(marker) == <<marker[3], marker[4], 0, 0>>

ExecFlagsDst(marker) == <<marker[1], marker[2], 0, 0>>

\* what a CaptureState call read and recorded: the stack items only as far as the
\* opcode reads them (JUMPI: destination and condition, JUMP: destination)
StepRecord(pc, op, top, cond, marker) ==
    [op |-> op, pc |-> pc,
     top |-> IF op \in {"JUMP", "JUMPI"} THEN top ELSE NULL,
     cond |-> IF op = "JUMPI" THEN cond ELSE NULL,
     marker |-> marker]

CaptureState(pc, op, top, cond) ==
    /\ tphase = "running"
    /\ stepCount < MaxSteps
    /\ stepCount' = stepCount + 1
    /\ LET idx == callDepth + 1
           fid == openFrames[Len(openFrames)]
           callFrameState == callFrameStates[idx]
           pos == StatePos(pc, op, top, cond)
           lookupHash ==
               IF callFrameState.lookupHash = NULL
               THEN getContractCoverageMapHash(frameLog[fid].code, callFrameState.create)
               ELSE callFrameState.lookupHash
           marker == Marker(pc, pos)
           key == <<lookupHash, marker>>
       IN  IF pos = NULL
           THEN /\ lastStep' = StepRecord(pc, op, top, cond, NULL)
                /\ UNCHANGED <<callFrameStates, frameLog>>
           ELSE /\ callFrameStates' =
                       [callFrameStates EXCEPT
                           ![idx].lookupHash = lookupHash,
                           ![idx].pendingCoverageMap = SetAt(@, key)]
                /\ frameLog' = [frameLog EXCEPT ![fid].hits = @ (+) SetToBag({key})]
                /\ lastStep' = StepRecord(pc, op, top, cond, marker)
    /\ UNCHANGED <<coverageMaps, callDepth, tracerResults, tphase, openFrames>>

ExitPending_NoRevert(pending, err) == pending

PopFrame_Kept(states, depth) == states

\* t.callFrameStates = t.callFrameStates[:t.callDepth]
PopFrame(states, depth) == SubSeq(states, 1, depth)

\* the frame log after the innermost frame was merged into the frame at
\* index target of the stack (0: into t.coverageMaps) and closed
FrameMerged(log, open, target, err) ==
    [log EXCEPT ![open[Len(open)]] =
        [@ EXCEPT !.status = IF err THEN "err" ELSE "ok",
                  !.merges = @ + 1,
                  !.mergedInto = IF target = 0 THEN TransactionMap ELSE open[target]]]

CommitTarget_Self(depth) == depth + 1

\* the index in callFrameStates of the frame that receives the pending map of
\* the frame at depth: t.callFrameStates[t.callDepth-1]
CommitTarget(depth) == depth

\* the frame's pending map as committed on exit: reverted first when the frame errored
ExitPending(pending, err) == IF err THEN RevertAll(pending) ELSE pending

CaptureExit(err) ==
    /\ tphase = "running"
    /\ callDepth > 0
    /\ LET idx == callDepth + 1
           pending == ExitPending(callFrameStates[idx].pendingCoverageMap, err)
       IN  /\ callFrameStates' =
                  PopFrame([callFrameStates EXCEPT
                               ![CommitTarget(callDepth)].pendingCoverageMap =
                                   Update(@, pending)],
                           callDepth)
           /\ frameLog' = FrameMerged(frameLog, openFrames, idx - 1, err)
    /\ callDepth' = callDepth - 1
    /\ openFrames' = SubSeq(openFrames, 1, Len(openFrames) - 1)
    /\ UNCHANGED <<coverageMaps, tracerResults, tphase, lastStep, stepCount>>

CaptureEnd(err) ==
    /\ tphase = "running"
    /\ callDepth = 0
    /\ LET idx == callDepth + 1
           pending == ExitPending(callFrameStates[idx].pendingCoverageMap, err)
       IN  /\ coverageMaps' = Update(coverageMaps, pending)
           /\ callFrameStates' = PopFrame(callFrameStates, callDepth)
    /\ frameLog' = FrameMerged(frameLog, openFrames, 0, err)
    /\ openFrames' = SubSeq(openFrames, 1, Len(openFrames) - 1)
    /\ tphase' = "ended"
    /\ UNCHANGED <<callDepth, tracerResults, lastStep, stepCount>>

CaptureTxEndSetAdditionalResults ==
    /\ tphase = "ended"
    /\ tracerResults' = coverageMaps
    /\ tphase' = "published"
    /\ UNCHANGED <<coverageMaps, callFrameStates, callDepth, frameLog, openFrames,
                   lastStep, stepCount>>

TracerNext ==
    \/ CaptureTxStart
    \/ \E create \in BOOLEAN, code \in Codes : CaptureStart(create, code)
    \/ \E typ \in CallTypes, code \in Codes : CaptureEnter(typ, code)
    \/ \E pc \in ProgramCounters, op \in Ops, top \in StackTops, cond \in StackConds :
           CaptureState(pc, op, top, cond)
    \/ \E err \in BOOLEAN : CaptureExit(err)
    \/ \E err \in BOOLEAN : CaptureEnd(err)
    \/ CaptureTxEndSetAdditionalResults

(***************************************************************************)
(* The worker's deployed contracts and method lists, and the synthesis of  *)
(* a fresh call sequence element.                                          *)
(***************************************************************************)
\* bounds of the configured maximum delays and of the raw samples the value
\* generator returns
MaxDelay == 2

MaxRaw == 3

Addresses == {"0xA1", "0xA2"}

Senders == <<"0x1111", "0x2222">>

\* contract definitions known to the fuzzer, each with its AssertionTestMethods
ContractDefinitions ==
    [Token |-> <<[name |-> "transfer", constant |-> FALSE, payable |-> FALSE, inputs |-> 1],
                 [name |-> "balanceOf", constant |-> TRUE, payable |-> FALSE, inputs |-> 1]>>,
     Vault |-> <<[name |-> "deposit", constant |-> FALSE, payable |-> TRUE, inputs |-> 0]>>]

ContractNames == DOMAIN ContractDefinitions

\* all orders in which a range over the keys of a map may visit them
IterationOrders(S) ==
    {p \in [1..Cardinality(S) -> S] : \A i, j \in 1..Cardinality(S) : p[i] = p[j] => i = j}

\* the DeployedContractMethod entries one contract contributes, split by mutability
RECURSIVE MethodsOf(_, _, _, _, _)
MethodsOf(address, contract, testViewMethods, wantConstant, i) ==
    IF i > Len(ContractDefinitions[contract]) THEN <<>>
    ELSE LET method == ContractDefinitions[contract][i]
             tracked == IF method.constant
                        THEN wantConstant /\ testViewMethods
                        ELSE ~wantConstant
         IN  (IF tracked
              THEN <<[Address |-> address, Contract |-> contract, Method |-> method]>>
              ELSE <<>>)
             \o MethodsOf(address, contract, testViewMethods, wantConstant, i + 1)

RECURSIVE RangeMethods(_, _, _, _, _)
RangeMethods(deployed, order, testViewMethods, wantConstant, k) ==
    IF k > Len(order) THEN <<>>
    ELSE MethodsOf(order[k], deployed[order[k]], testViewMethods, wantConstant, 1)
         \o RangeMethods(deployed, order, testViewMethods, wantConstant, k + 1)

updateMethods_ViewsAlways(deployed, order, testViewMethods) ==
    [stateChangingMethods |-> RangeMethods(deployed, order, TRUE, FALSE, 1),
     pureMethods |-> RangeMethods(deployed, order, TRUE, TRUE, 1)]

\* updateMethods: both lists rebuilt by ranging over the deployedContracts map in
\* the order the runtime happens to visit its keys
updateMethods(deployed, order, testViewMethods) ==
    [stateChangingMethods |-> RangeMethods(deployed, order, testViewMethods, FALSE, 1),
     pureMethods |-> RangeMethods(deployed, order, testViewMethods, TRUE, 1)]

MapPut(m, k, v) == [x \in DOMAIN m \cup {k} |-> IF x = k THEN v ELSE m[x]]

MapDelete(m, k) == [x \in DOMAIN m \ {k} |-> m[x]]

EmptyMap == [x \in {} |-> NULL]

\* onChainContractDeploymentAddedEvent; matched is the definition MatchBytecode
\* found (NULL: none), order the map iteration order of updateMethods.  No
\* handler is subscribed to the worker's ContractAdded event.
onChainContractDeploymentAddedEvent(address, dynamic, matched, order) ==
    IF ~testingConfig.TestAllContracts /\ dynamic
    THEN /\ eventResult' = [err |-> NULL]
         /\ UNCHANGED <<deployedContracts, stateChangingMethods, pureMethods,
                        valueSetAddresses>>
    ELSE /\ valueSetAddresses' = valueSetAddresses \cup {address}
         /\ IF matched = NULL
            THEN /\ eventResult' =
                        [err |-> IF testingConfig.StopOnFailedContractMatching
                                 THEN "could not match bytecode" ELSE NULL]
                 /\ UNCHANGED <<deployedContracts, stateChangingMethods, pureMethods>>
            ELSE LET deployed == MapPut(deployedContracts, address, matched)
                     methods == updateMethods(deployed, order, testingConfig.TestViewMethods)
                 IN  /\ order \in IterationOrders(DOMAIN deployed)
                     /\ deployedContracts' = deployed
                     /\ stateChangingMethods' = methods.stateChangingMethods
                     /\ pureMethods' = methods.pureMethods
                     /\ eventResult' = [err |-> NULL]

\* onChainContractDeploymentRemovedEvent
onChainContractDeploymentRemovedEvent(address, order) ==
    /\ valueSetAddresses' = valueSetAddresses \ {address}
    /\ IF address \notin DOMAIN deployedContracts
       THEN /\ eventResult' = [err |-> NULL]
            /\ UNCHANGED <<deployedContracts, stateChangingMethods, pureMethods>>
       ELSE LET deployed == MapDelete(deployedContracts, address)
                methods == updateMethods(deployed, order, testingConfig.TestViewMethods)
            IN  /\ order \in IterationOrders(DOMAIN deployed)
                /\ deployedContracts' = deployed
                /\ stateChangingMethods' = methods.stateChangingMethods
                /\ pureMethods' = methods.pureMethods
                /\ eventResult' = [err |-> NULL]

\* rand.Intn(n) on the generator's next raw value (n > 0)
Intn(raw, n) == raw % n

\* the raw values one generateNewElement call draws from the worker's random
\* provider and value generator, in the order it draws them
ElementDraws(rolls, indexes, args, raws) ==
    [roll : rolls, method : indexes, sender : indexes, arg : args, value : indexes,
     number : raws, timestamp : raws]

\* a configured maximum delay applied to a raw 64-bit sample
\* a uint64 maximum delay is a natural number or MaxUint64, which stands for
\* 2^64 - 1; adding 1 to it wraps to 0
MaxUint64 == -1

\* the divisor maxDelay + 1 of the sampled delay, in uint64 arithmetic
DelayModulus(maxDelay) == IF maxDelay = MaxUint64 THEN 0 ELSE maxDelay + 1

\* the sampling divides by zero
SampleDelayPanics(maxDelay) == maxDelay # 0 /\ DelayModulus(maxDelay) = 0

SampleDelay(maxDelay, raw) == IF maxDelay # 0 THEN raw % DelayModulus(maxDelay) ELSE 0

CapBlockNumberDelay_Uncapped(blockNumberDelay, blockTimestampDelay) == blockNumberDelay

\* the block number delay capped by the timestamp delay
CapBlockNumberDelay(blockNumberDelay, blockTimestampDelay) ==
    IF blockNumberDelay > blockTimestampDelay
    THEN IF blockTimestampDelay = 0 THEN 0 ELSE blockNumberDelay % blockTimestampDelay
    ELSE blockNumberDelay

\* calls.NewCallSequenceElement around calls.NewCallMessageWithAbiValueData
NewCallSequenceElement(selectedMethod, sender, args, value, numberDelay, timestampDelay) ==
    [Contract |-> selectedMethod.Contract,
     To |-> selectedMethod.Address,
     Method |-> selectedMethod.Method.name,
     From |-> sender,
     InputValues |-> args,
     Value |-> value,
     BlockNumberDelay |-> numberDelay,
     BlockTimestampDelay |-> timestampDelay,
     Nonce |-> 0]

UsePureMethods_AnyRoll(stateChanging, pure, roll) ==
    Intn(roll, 100) = 0 \/ (Len(stateChanging) = 0 /\ Len(pure) > 0)

\* generateNewElement's choice of the list to select from: the pure methods
\* with a chance of 1 in 100 when there are any, or when there are no others
UsePureMethods(stateChanging, pure, roll) ==
    LET callOnlyPureFunctions == Len(stateChanging) = 0 /\ Len(pure) > 0
    IN  (Len(pure) > 0 /\ Intn(roll, 100) = 0) \/ callOnlyPureFunctions

\* generateNewElement on the given method lists and configured maximum delays,
\* with the raw draws d; panic where rand.Intn is called with the length of an
\* empty list
generateNewElement(stateChanging, pure, maxNumberDelay, maxTimestampDelay, d) ==
    IF Len(stateChanging) = 0 /\ Len(pure) = 0
    THEN [ok |-> FALSE, element |-> NULL, err |-> "no methods to call", raw |-> NULL,
          panic |-> NULL]
    ELSE IF Len(IF UsePureMethods(stateChanging, pure, d.roll)
                THEN pure ELSE stateChanging) = 0
    THEN [ok |-> FALSE, element |-> NULL, err |-> NULL, raw |-> NULL,
          panic |-> "invalid argument to Intn"]
    ELSE IF SampleDelayPanics(maxNumberDelay) \/ SampleDelayPanics(maxTimestampDelay)
    THEN [ok |-> FALSE, element |-> NULL, err |-> NULL, raw |-> NULL,
          panic |-> "integer divide by zero"]
    ELSE LET usePure == UsePureMethods(stateChanging, pure, d.roll)
             selectedMethod ==
                 IF usePure
                 THEN pure[Intn(d.method, Len(pure)) + 1]
                 ELSE stateChanging[Intn(d.method, Len(stateChanging)) + 1]
             selectedSender == Senders[Intn(d.sender, Len(Senders)) + 1]
             args == [i \in 1..selectedMethod.Method.inputs |-> d.arg]
             value == IF selectedMethod.Method.payable THEN d.value ELSE 0
             rawNumberDelay == SampleDelay(maxNumberDelay, d.number)
             blockTimestampDelay == SampleDelay(maxTimestampDelay, d.timestamp)
             blockNumberDelay == CapBlockNumberDelay(rawNumberDelay, blockTimestampDelay)
         IN  [ok |-> TRUE,
              element |-> NewCallSequenceElement(selectedMethod, selectedSender, args,
                                                 value, blockNumberDelay,
                                                 blockTimestampDelay),
              err |-> NULL,
              raw |-> [number |-> rawNumberDelay, timestamp |-> blockTimestampDelay],
              panic |-> NULL]

NoElement ==
    [ok |-> FALSE, element |-> NULL, err |-> NULL, raw |-> NULL, panic |-> NULL,
     called |-> FALSE]

\* one call of generateNewElement on the worker's current method lists
GenerateNewElementCall(d) ==
    /\ lastElement' = [called |-> TRUE]
                       @@ generateNewElement(stateChangingMethods, pureMethods,
                                             maxBlockNumberDelay, maxBlockTimestampDelay, d)
    /\ UNCHANGED <<deployedContracts, stateChangingMethods, pureMethods,
                   valueSetAddresses, testingConfig, maxBlockNumberDelay,
                   maxBlockTimestampDelay, eventResult>>

DeploymentAdded(address, dynamic, matched, order) ==
    /\ onChainContractDeploymentAddedEvent(address, dynamic, matched, order)
    /\ lastElement' = NoElement
    /\ UNCHANGED <<testingConfig, maxBlockNumberDelay, maxBlockTimestampDelay>>

DeploymentRemoved(address, order) ==
    /\ onChainContractDeploymentRemovedEvent(address, order)
    /\ lastElement' = NoElement
    /\ UNCHANGED <<testingConfig, maxBlockNumberDelay, maxBlockTimestampDelay>>

AllOrders == UNION {IterationOrders(S) : S \in SUBSET Addresses}

Rolls == {0, 57}

\* the draws of one call: every choice of method, sender and value with the delay
\* samples at zero, and every pair of delay samples with the first method and sender
ElemDraws ==
    ElementDraws(Rolls, 0..1, {1}, {0}) \cup ElementDraws({57}, {0}, {1}, 0..MaxRaw)

\* config_defaults.go, with assertion testing of view methods switched on
DefaultTestingConfig ==
    [TestAllContracts |-> FALSE, StopOnFailedContractMatching |-> TRUE,
     TestViewMethods |-> TRUE]

TestingConfigs ==
    [TestAllContracts : BOOLEAN, StopOnFailedContractMatching : BOOLEAN,
     TestViewMethods : BOOLEAN]


\* newFuzzerWorker: no contract deployed, empty method lists
ElemInit ==
    /\ deployedContracts = EmptyMap
    /\ stateChangingMethods = <<>>
    /\ pureMethods = <<>>
    /\ valueSetAddresses = {}
    /\ testingConfig \in TestingConfigs
    /\ maxBlockNumberDelay \in 0..MaxDelay \cup {MaxUint64}
    /\ maxBlockTimestampDelay \in 0..MaxDelay \cup {MaxUint64}
    \* every testing configuration with the largest delays, and every pair of
    \* maximum delays with the default testing configuration
    /\ \/ testingConfig = DefaultTestingConfig
       \/ maxBlockNumberDelay = MaxDelay /\ maxBlockTimestampDelay = MaxDelay
    /\ eventResult = NULL
    /\ lastElement = NoElement

ElemNext ==
    \/ \E address \in Addresses, dynamic \in BOOLEAN,
          matched \in ContractNames \cup {NULL}, order \in AllOrders :
           DeploymentAdded(address, dynamic, matched, order)
    \/ \E address \in Addresses, order \in AllOrders : DeploymentRemoved(address, order)
    \/ \E d \in ElemDraws : GenerateNewElementCall(d)

(***************************************************************************)
(* The call sequence generator: the strategy chooser, the mutation         *)
(* strategies, InitializeNextSequence and PopSequenceElement.              *)
(***************************************************************************)
MaxSeqLen == 2

\* the largest call sequence length the generator is driven with on its own
MaxGenLen == 3

\* a nil *calls.CallSequenceElement
NilElement ==
    [Contract |-> NULL, To |-> NULL, Method |-> NULL, From |-> NULL, InputValues |-> <<>>,
     Value |-> 0, BlockNumberDelay |-> 0, BlockTimestampDelay |-> 0, Nonce |-> 0]

IsNil(element) == element.Contract = NULL

\* make(calls.CallSequence, n): n nil elements
MakeCallSequence(n) == [i \in 1..n |-> NilElement]

WeightFields ==
    {"RandomUnmodifiedCorpusHeadWeight", "RandomUnmodifiedCorpusTailWeight",
     "RandomUnmodifiedSpliceAtRandomWeight", "RandomUnmodifiedInterleaveAtRandomWeight",
     "RandomMutatedCorpusHeadWeight", "RandomMutatedCorpusTailWeight",
     "RandomMutatedSpliceAtRandomWeight", "RandomMutatedInterleaveAtRandomWeight"}

Strategy(func, prefetch, weight) ==
    [CallSequenceGeneratorFunc |-> func, PrefetchModifyCallFunc |-> prefetch,
     weight |-> weight]

\* NewCallSequenceGenerator: the choices added to the mutationStrategyChooser, in
\* order, each with the configuration weight the constructor reads for it
NewCallSequenceGenerator(cfg) ==
    <<Strategy("CorpusHead", NULL, cfg.RandomUnmodifiedCorpusHeadWeight),
      Strategy("CorpusTail", NULL, cfg.RandomUnmodifiedCorpusTailWeight),
      Strategy("Expansion", NULL, cfg.RandomUnmodifiedCorpusTailWeight),
      Strategy("SpliceAtRandom", NULL, cfg.RandomUnmodifiedSpliceAtRandomWeight),
      Strategy("InterleaveAtRandom", NULL, cfg.RandomUnmodifiedInterleaveAtRandomWeight),
      Strategy("CorpusHead", "Mutate", cfg.RandomMutatedCorpusHeadWeight),
      Strategy("CorpusTail", "Mutate", cfg.RandomMutatedCorpusTailWeight),
      Strategy("SpliceAtRandom", "Mutate", cfg.RandomMutatedSpliceAtRandomWeight),
      Strategy("InterleaveAtRandom", "Mutate", cfg.RandomMutatedInterleaveAtRandomWeight)>>

\* WeightedRandomChooser.ChoiceCount
ChoiceCount(choices) == Len(choices)

RECURSIVE TotalWeight(_, _)
TotalWeight(choices, n) ==
    IF n = 0 THEN 0 ELSE choices[n].weight + TotalWeight(choices, n - 1)

\* WeightedRandomChooser.Choose: the choice in whose weight interval the position
\* raw mod total weight falls; an error when nothing has a weight
Choose(choices, raw) ==
    LET total == TotalWeight(choices, Len(choices))
    IN  IF total = 0
        THEN [err |-> "no choices", choice |-> NULL]
        ELSE LET position == raw % total
                 i == CHOOSE k \in 1..Len(choices) :
                          /\ TotalWeight(choices, k - 1) <= position
                          /\ position < TotalWeight(choices, k)
             IN  [err |-> NULL, choice |-> i]

\* Corpus.RandomMutationTargetSequence on the mutable corpus sequences
RandomMutationTargetSequence(corpus, raw) ==
    IF Len(corpus) = 0
    THEN [err |-> "corpus empty", sequence |-> <<>>]
    ELSE [err |-> NULL, sequence |-> corpus[(raw % Len(corpus)) + 1]]

\* copy(dst[at...], src): overwrites Min(len(dst) - at, len(src)) slots; at is 0-based
Copy(dst, at, src) ==
    [i \in 1..Len(dst) |->
        IF i > at /\ i - at <= Len(src) THEN src[i - at] ELSE dst[i]]

\* s[from:] for a 0-based from
SliceFrom(s, from) == SubSeq(s, from + 1, Len(s))

StrategyResult(sequence, err, panic) == [sequence |-> sequence, err |-> err, panic |-> panic]

\* the draws of one strategy call: corpus picks c1, c2, Intn draws r1, r2, rounds
callSeqGenFuncCorpusHead(corpus, sequence, sd) ==
    LET target == RandomMutationTargetSequence(corpus, sd.c1)
        corpusSequence == target.sequence
        maxLength == Min(Len(sequence), Len(corpusSequence))
    IN  IF target.err # NULL
        THEN StrategyResult(sequence, target.err, FALSE)
        ELSE StrategyResult(Copy(sequence, 0, SubSeq(corpusSequence, 1, maxLength)),
                            NULL, FALSE)

callSeqGenFuncCorpusTail(corpus, sequence, sd) ==
    LET target == RandomMutationTargetSequence(corpus, sd.c1)
        corpusSequence == target.sequence
        maxLength == Min(Len(sequence), Len(corpusSequence))
        targetLength == Intn(sd.r1, maxLength) + 1
    IN  IF target.err # NULL
        THEN StrategyResult(sequence, target.err, FALSE)
        ELSE IF maxLength <= 0
        THEN StrategyResult(sequence, NULL, TRUE)     \* rand.Intn(0) panics
        ELSE IF targetLength > Len(sequence) \/ targetLength > Len(corpusSequence)
        THEN StrategyResult(sequence, NULL, TRUE)     \* slice bounds out of range
        ELSE StrategyResult(
                 Copy(sequence, Len(sequence) - targetLength,
                      SliceFrom(corpusSequence, Len(corpusSequence) - targetLength)),
                 NULL, FALSE)

\* s with x inserted before the 0-based position at
InsertAt(s, at, x) == SubSeq(s, 1, at) \o <<x>> \o SubSeq(s, at + 1, Len(s))

\* the rounds of callSeqGenFuncExpansion on its local slice variable.  The
\* parameter slice has len = cap = len(baseSequence), so the first append (and
\* every append) reallocates: the rounds grow the local slice only.
RECURSIVE ExpansionRounds(_, _, _, _, _)
ExpansionRounds(local, duplicatedElement, randIndex, i, rounds) ==
    IF i >= rounds THEN local
    ELSE LET at == randIndex + i
         IN  ExpansionRounds(
                 IF at < Len(local)
                 THEN InsertAt(local, at, duplicatedElement)
                 ELSE Append(local, duplicatedElement),
                 duplicatedElement, at, i + 1, rounds)

callSeqGenFuncExpansion(corpus, sequence, sd) ==
    IF Len(sequence) <= 0
    THEN StrategyResult(sequence, NULL, TRUE)         \* rand.Intn(0) panics
    ELSE LET rounds == Intn(sd.rounds, 31)
             randIndex == Intn(sd.r1, Len(sequence))
             local == ExpansionRounds(sequence, sequence[randIndex + 1], randIndex, 0, rounds)
         IN  [sequence |-> sequence, err |-> NULL, panic |-> FALSE, local |-> local]

SpliceLengths_TailUnbounded(sequence, headSequence, tailSequence, sd) ==
    LET maxLength == Min(Len(sequence), Len(headSequence))
        headSequenceLength == IF maxLength > 0 THEN Intn(sd.r1, maxLength) + 1 ELSE 0
        maxLength2 == Len(tailSequence)
    IN  [first |-> headSequenceLength,
         second |-> IF maxLength > 0 THEN Intn(sd.r2, maxLength2 + 1) ELSE 0,
         panic |-> maxLength <= 0]

\* headSequenceLength and tailSequenceLength as callSeqGenFuncSpliceAtRandom
\* draws them; panic where rand.Intn is called with an argument below 1
SpliceLengths(sequence, headSequence, tailSequence, sd) ==
    LET maxLength == Min(Len(sequence), Len(headSequence))
        headSequenceLength == IF maxLength > 0 THEN Intn(sd.r1, maxLength) + 1 ELSE 0
        maxLength2 == Min(Len(sequence) - headSequenceLength, Len(tailSequence))
    IN  [first |-> headSequenceLength,
         second |-> IF maxLength > 0 /\ maxLength2 + 1 > 0
                    THEN Intn(sd.r2, maxLength2 + 1) ELSE 0,
         panic |-> maxLength <= 0 \/ maxLength2 + 1 <= 0]

callSeqGenFuncSpliceAtRandom(corpus, sequence, sd) ==
    LET head == RandomMutationTargetSequence(corpus, sd.c1)
        tail == RandomMutationTargetSequence(corpus, sd.c2)
        headSequence == head.sequence
        tailSequence == tail.sequence
        taken == SpliceLengths(sequence, headSequence, tailSequence, sd)
        headSequenceLength == taken.first
        tailSequenceLength == taken.second
        withHead == Copy(sequence, 0, SubSeq(headSequence, 1, headSequenceLength))
        \* headSequence[:h], sequence[h:] or tailSequence[len-t:] out of range
        outOfRange == \/ headSequenceLength > Len(headSequence)
                      \/ headSequenceLength > Len(sequence)
                      \/ tailSequenceLength > Len(tailSequence)
    IN  IF head.err # NULL THEN StrategyResult(sequence, head.err, FALSE)
        ELSE IF tail.err # NULL THEN StrategyResult(sequence, tail.err, FALSE)
        ELSE IF taken.panic \/ outOfRange THEN StrategyResult(sequence, NULL, TRUE)
        ELSE StrategyResult(
                 Copy(withHead, headSequenceLength,
                      SliceFrom(tailSequence, Len(tailSequence) - tailSequenceLength)),
                 NULL, FALSE)

\* the interleaving loop cut off at the shorter slice
Interleave_StopsAtShorter(dest, first, second, i, destIndex, largest) ==
    [k \in 1..Len(dest) |->
        IF k > 2 * Min(Len(first), Len(second)) THEN dest[k]
        ELSE IF k % 2 = 1 THEN first[(k + 1) \div 2] ELSE second[k \div 2]]

\* the interleaving loop: dest[destIndex] written alternately from both sources
RECURSIVE Interleave(_, _, _, _, _, _)
Interleave(dest, first, second, i, destIndex, largest) ==
    IF i >= largest THEN dest
    ELSE LET takeFirst == i < Len(first)
             d1 == IF takeFirst THEN [dest EXCEPT ![destIndex + 1] = first[i + 1]] ELSE dest
             k1 == IF takeFirst THEN destIndex + 1 ELSE destIndex
             takeSecond == i < Len(second)
             d2 == IF takeSecond THEN [d1 EXCEPT ![k1 + 1] = second[i + 1]] ELSE d1
             k2 == IF takeSecond THEN k1 + 1 ELSE k1
         IN  Interleave(d2, first, second, i + 1, k2, largest)

\* firstSequenceLength and secondSequenceLength as
\* callSeqGenFuncInterleaveAtRandom draws them
InterleaveLengths(sequence, firstSequence, secondSequence, sd) ==
    LET maxLength == Min(Len(sequence), Len(firstSequence))
        firstSequenceLength == IF maxLength > 0 THEN Intn(sd.r1, maxLength) + 1 ELSE 0
        maxLength2 == Min(Len(sequence) - firstSequenceLength, Len(secondSequence))
    IN  [first |-> firstSequenceLength,
         second |-> IF maxLength > 0 /\ maxLength2 + 1 > 0
                    THEN Intn(sd.r2, maxLength2 + 1) ELSE 0,
         panic |-> maxLength <= 0 \/ maxLength2 + 1 <= 0]

callSeqGenFuncInterleaveAtRandom(corpus, sequence, sd) ==
    LET one == RandomMutationTargetSequence(corpus, sd.c1)
        two == RandomMutationTargetSequence(corpus, sd.c2)
        taken == InterleaveLengths(sequence, one.sequence, two.sequence, sd)
        firstSequenceLength == taken.first
        firstSequence == SubSeq(one.sequence, 1, firstSequenceLength)
        secondSequenceLength == taken.second
        secondSequence == SubSeq(two.sequence, 1, secondSequenceLength)
        largestSequenceSize == Max(firstSequenceLength, secondSequenceLength)
        \* a slice beyond its source, or sequence[destIndex] written beyond the
        \* destination (destIndex runs over every element of both slices)
        outOfRange == \/ firstSequenceLength > Len(one.sequence)
                      \/ secondSequenceLength > Len(two.sequence)
                      \/ firstSequenceLength + secondSequenceLength > Len(sequence)
    IN  IF one.err # NULL THEN StrategyResult(sequence, one.err, FALSE)
        ELSE IF two.err # NULL THEN StrategyResult(sequence, two.err, FALSE)
        ELSE IF taken.panic \/ outOfRange THEN StrategyResult(sequence, NULL, TRUE)
        ELSE StrategyResult(
                 Interleave(sequence, firstSequence, secondSequence, 0, 0,
                            largestSequenceSize),
                 NULL, FALSE)

\* corpusMutationFunc.CallSequenceGeneratorFunc(g, g.baseSequence)
CallSequenceGeneratorFunc(func, corpus, sequence, sd) ==
    CASE func = "CorpusHead" -> callSeqGenFuncCorpusHead(corpus, sequence, sd)
      [] func = "CorpusTail" -> callSeqGenFuncCorpusTail(corpus, sequence, sd)
      [] func = "Expansion" -> callSeqGenFuncExpansion(corpus, sequence, sd)
      [] func = "SpliceAtRandom" -> callSeqGenFuncSpliceAtRandom(corpus, sequence, sd)
      [] func = "InterleaveAtRandom" -> callSeqGenFuncInterleaveAtRandom(corpus, sequence, sd)

\* the two lengths a splice or interleave call takes from its corpus sequences
TakenLengths(func, corpus, sequence, sd) ==
    LET one == RandomMutationTargetSequence(corpus, sd.c1).sequence
        two == RandomMutationTargetSequence(corpus, sd.c2).sequence
    IN  CASE func = "SpliceAtRandom" -> SpliceLengths(sequence, one, two, sd)
          [] func = "InterleaveAtRandom" -> InterleaveLengths(sequence, one, two, sd)
          [] OTHER -> [first |-> 0, second |-> 0, panic |-> FALSE]

\* the draws a strategy consumes (the others are left at zero)
StrategyDraws(func, picks, raws, rounds) ==
    CASE func = "CorpusHead" -> [c1 : picks, c2 : {0}, r1 : {0}, r2 : {0}, rounds : {0}]
      [] func = "CorpusTail" -> [c1 : picks, c2 : {0}, r1 : raws, r2 : {0}, rounds : {0}]
      [] func = "Expansion" -> [c1 : {0}, c2 : {0}, r1 : raws, r2 : {0}, rounds : rounds]
      [] OTHER -> [c1 : picks, c2 : picks, r1 : raws, r2 : raws, rounds : {0}]

\* valuegeneration.MutateAbiValue: some other value of the type
MutateAbiValue(value, raw) == raw

\* prefetchModifyCallFuncMutate: every input value mutated, calldata re-encoded
prefetchModifyCallFuncMutate(element, raw) ==
    [element EXCEPT !.InputValues = [i \in 1..Len(@) |-> MutateAbiValue(@[i], raw)]]

\* CallMessage.FillFromTestChainProperties: nonce and gas price from the chain
FillFromTestChainProperties(element, chainNonce) == [element EXCEPT !.Nonce = chainNonce]

\* corpus.ActiveMutableSequenceCount
ActiveMutableSequenceCount(corpus) == Len(corpus)

NoMutationSource_ChoicesOnly(choices, corpus) == ChoiceCount(choices) = 0

\* InitializeNextSequence's test for "no corpus mutation methods or corpus call
\* sequences"
NoMutationSource(choices, corpus) ==
    ChoiceCount(choices) = 0 \/ ActiveMutableSequenceCount(corpus) = 0

\* what a call of InitializeNextSequence leaves and returns: the generator's new
\* fields, the corpus's unexecuted queue, the values returned, whether the call
\* panicked, and (mutating) whether it goes on to the corpus mutation
\* no strategy was chosen (the strategies are numbered from 1)
NoStrategy == 0

InitializeResult(base, queue, prefetch, isNew, err, panic, strategy, mutating) ==
    [baseSequence |-> base, fetchIndex |-> 0, prefetchModifyCallFunc |-> prefetch,
     unexecutedQueue |-> queue, isNew |-> isNew, err |-> err, panic |-> panic,
     strategy |-> strategy, mutating |-> mutating]

InitializeNextSequenceCheck_IgnoresQueue(cfg, length, corpus, unexecuted) ==
    InitializeResult(MakeCallSequence(length), unexecuted, NULL, TRUE, NULL, FALSE,
                     NoStrategy, ~NoMutationSource(NewCallSequenceGenerator(cfg), corpus))

\* InitializeNextSequence up to the test of the corpus: the reset, the unexecuted
\* sequence, the emptiness test
InitializeNextSequenceCheck(cfg, length, corpus, unexecuted) ==
    LET fresh == MakeCallSequence(length)
    IN  IF Len(unexecuted) > 0
        THEN InitializeResult(Head(unexecuted), Tail(unexecuted), NULL, FALSE, NULL, FALSE,
                              NoStrategy, FALSE)
        ELSE InitializeResult(fresh, unexecuted, NULL, TRUE, NULL, FALSE, NoStrategy,
                              ~NoMutationSource(NewCallSequenceGenerator(cfg), corpus))

\* InitializeNextSequence from the Float32 roll on, with the draws roll (in
\* hundredths), pick (the chooser's) and sd (the strategy's), on the corpus as it
\* is by then
InitializeNextSequenceMutate(cfg, base, corpus, unexecuted, roll, pick, sd) ==
    LET choices == NewCallSequenceGenerator(cfg)
    IN  IF roll > cfg.NewSequenceProbability
        THEN LET chosen == Choose(choices, pick)
             IN  IF chosen.err # NULL
                 THEN InitializeResult(base, unexecuted, NULL, TRUE, chosen.err, FALSE,
                                       NoStrategy, FALSE)
                 ELSE LET strategy == choices[chosen.choice]
                          res == CallSequenceGeneratorFunc(
                                     strategy.CallSequenceGeneratorFunc, corpus, base, sd)
                      IN  IF res.panic
                          THEN InitializeResult(base, unexecuted, NULL, TRUE, NULL, TRUE,
                                                chosen.choice, FALSE)
                          ELSE IF res.err # NULL
                          THEN InitializeResult(res.sequence, unexecuted, NULL, TRUE,
                                                res.err, FALSE, chosen.choice, FALSE)
                          ELSE InitializeResult(res.sequence, unexecuted,
                                                strategy.PrefetchModifyCallFunc, TRUE, NULL,
                                                FALSE, chosen.choice, FALSE)
        ELSE InitializeResult(base, unexecuted, NULL, TRUE, NULL, FALSE, NoStrategy, FALSE)

\* InitializeNextSequence run to its end on an unchanging corpus
InitializeNextSequence(cfg, length, corpus, unexecuted, roll, pick, sd) ==
    LET checked == InitializeNextSequenceCheck(cfg, length, corpus, unexecuted)
    IN  IF checked.mutating
        THEN InitializeNextSequenceMutate(cfg, checked.baseSequence, corpus, unexecuted,
                                          roll, pick, sd)
        ELSE checked

\* the strategy draws InitializeNextSequence may consume with this chooser draw
InitDraws(cfg, pick, picks, raws, rounds) ==
    LET choices == NewCallSequenceGenerator(cfg)
        chosen == Choose(choices, pick)
    IN  IF chosen.err # NULL
        THEN StrategyDraws("CorpusHead", {0}, {0}, {0})
        ELSE StrategyDraws(choices[chosen.choice].CallSequenceGeneratorFunc,
                           picks, raws, rounds)

\* PopSequenceElement on the generator fields g and the worker's method lists,
\* with the draws d (a fresh element's) and mutation (the prefetch hook's)
PopSequenceElement_FailureAdvances(g, stateChanging, pure, maxNumberDelay, maxTimestampDelay, chainNonce, d, mutation) ==
    IF g.fetchIndex >= Len(g.baseSequence)
    THEN [g |-> g, element |-> NilElement, err |-> NULL]
    ELSE LET base == g.baseSequence[g.fetchIndex + 1]
             generated == generateNewElement(stateChanging, pure, maxNumberDelay,
                                             maxTimestampDelay, d)
             prepared ==
                 IF IsNil(base) THEN generated.element
                 ELSE IF g.prefetchModifyCallFunc # NULL
                 THEN prefetchModifyCallFuncMutate(base, mutation)
                 ELSE base
         IN  IF IsNil(base) /\ ~generated.ok
             THEN [g |-> [g EXCEPT !.fetchIndex = @ + 1], element |-> NilElement,
                   err |-> generated.err]
             ELSE LET element == FillFromTestChainProperties(prepared, chainNonce)
                  IN  [g |-> [g EXCEPT !.baseSequence[g.fetchIndex + 1] = element,
                                       !.fetchIndex = @ + 1],
                       element |-> element,
                       err |-> NULL]

PopSequenceElement(g, stateChanging, pure, maxNumberDelay, maxTimestampDelay, chainNonce, d, mutation) ==
    IF g.fetchIndex >= Len(g.baseSequence)
    THEN [g |-> g, element |-> NilElement, err |-> NULL]
    ELSE LET base == g.baseSequence[g.fetchIndex + 1]
             generated == generateNewElement(stateChanging, pure, maxNumberDelay,
                                             maxTimestampDelay, d)
             prepared ==
                 IF IsNil(base) THEN generated.element
                 ELSE IF g.prefetchModifyCallFunc # NULL
                 THEN prefetchModifyCallFuncMutate(base, mutation)
                 ELSE base
         IN  IF IsNil(base) /\ ~generated.ok
             THEN [g |-> g, element |-> NilElement, err |-> generated.err]
             ELSE LET element == FillFromTestChainProperties(prepared, chainNonce)
                  IN  [g |-> [g EXCEPT !.baseSequence[g.fetchIndex + 1] = element,
                                       !.fetchIndex = @ + 1],
                       element |-> element,
                       err |-> NULL]

(***************************************************************************)
(* The generator of one worker, driven by its caller.                      *)
(***************************************************************************)
CorpusElement(k) ==
    [Contract |-> "Token", To |-> "0xA1", Method |-> "transfer", From |-> Senders[1],
     InputValues |-> <<10 + k>>, Value |-> 0, BlockNumberDelay |-> 0,
     BlockTimestampDelay |-> 0, Nonce |-> 0]

\* a call of a view method with an argument for which it fails
CorpusViewCall == [CorpusElement(10) EXCEPT !.Method = "balanceOf"]

\* corpus contents: no entry, or a sequence of three calls and one of a single call
GenCorpora ==
    {<<>>, <<<<CorpusElement(1), CorpusElement(2), CorpusElement(3)>>, <<CorpusElement(4)>>>>}

\* the corpus's queue of sequences loaded but not yet executed
GenUnexecuted ==
    {<<>>,
     <<<<CorpusElement(5), CorpusElement(6), CorpusElement(7)>>>>,
     <<<<CorpusElement(5), CorpusElement(6), CorpusElement(7)>>, <<CorpusViewCall>>>>}

WeightsAll(w) == [f \in WeightFields |-> w]

WeightsOnly(field) == [f \in WeightFields |-> IF f = field THEN 1 ELSE 0]

GenWeights ==
    {WeightsAll(1), WeightsOnly("RandomUnmodifiedCorpusHeadWeight"),
     WeightsOnly("RandomUnmodifiedCorpusTailWeight")}

NewSequenceProbabilities == {0, 50}

GenConfigs ==
    {w @@ [NewSequenceProbability |-> p] : w \in GenWeights, p \in NewSequenceProbabilities}

Float32Rolls == {0, 75}

ChooserRaws == 0..8

RoundRaws == {0, 1, 30}

MutationRaws == {9}

CorpusPickRaws == 0..2

GenElemDraws == ElementDraws(Rolls, {0}, {1}, {0})

GenChainNonce == 1

GeneratorFields ==
    [baseSequence |-> baseSequence, fetchIndex |-> fetchIndex,
     prefetchModifyCallFunc |-> prefetchModifyCallFunc]

NoGenResult ==
    [op |-> NULL, isNew |-> FALSE, err |-> NULL, element |-> NilElement,
     strategy |-> NoStrategy]

\* other workers add at most this many sequences to the corpus
MaxCorpusAdds == 1

NoGenCall ==
    [pc |-> "idle", corpusAtCheck |-> 0, queueAtCheck |-> 0, queueHead |-> <<>>,
     source |-> <<>>, yielded |-> <<>>, added |-> 0, func |-> NULL, taken |-> <<0, 0>>,
     local |-> <<>>, picked |-> <<>>]

\* NewCallSequenceGenerator's generator, before any sequence
GenInit ==
    /\ config \in GenConfigs
    /\ callSequenceLength \in 0..MaxGenLen
    /\ corpusSequences \in GenCorpora
    /\ unexecutedQueue \in GenUnexecuted
    /\ baseSequence = <<>>
    /\ fetchIndex = 0
    /\ prefetchModifyCallFunc = NULL
    /\ generatorPanic = FALSE
    /\ genResult = NoGenResult
    /\ genCall = NoGenCall

\* what the strategy call of InitializeNextSequence did, for the record of the
\* call: its function, the lengths it took and its local slice at return
StrategyFunc(cfg, strategy) ==
    IF strategy = NoStrategy THEN NULL
    ELSE NewCallSequenceGenerator(cfg)[strategy].CallSequenceGeneratorFunc

StrategyTaken(cfg, strategy, corpus, sequence, sd) ==
    LET taken == TakenLengths(StrategyFunc(cfg, strategy), corpus, sequence, sd)
    IN  <<taken.first, taken.second>>

StrategyPicked(strategy, corpus, sd) ==
    IF strategy = NoStrategy THEN <<>>
    ELSE <<RandomMutationTargetSequence(corpus, sd.c1).sequence,
           RandomMutationTargetSequence(corpus, sd.c2).sequence>>

StrategyLocal(cfg, strategy, corpus, sequence, sd) ==
    IF StrategyFunc(cfg, strategy) = "Expansion" /\ Len(sequence) > 0
    THEN callSeqGenFuncExpansion(corpus, sequence, sd).local
    ELSE <<>>

ResetHook_Kept(previous) == previous

\* g.prefetchModifyCallFunc = nil, on entry of InitializeNextSequence
ResetHook(previous) == NULL

\* InitializeNextSequence up to its test of the corpus; it returns here unless it
\* goes on to mutate a corpus sequence
InitializeNextSequenceBegin ==
    /\ ~generatorPanic
    /\ genCall.pc = "idle"
    /\ \E r \in {InitializeNextSequenceCheck(config, callSequenceLength, corpusSequences,
                                             unexecutedQueue)} :
           /\ baseSequence' = r.baseSequence
           /\ fetchIndex' = r.fetchIndex
           /\ prefetchModifyCallFunc' = ResetHook(prefetchModifyCallFunc)
           /\ unexecutedQueue' = r.unexecutedQueue
           /\ genResult' = IF r.mutating THEN NoGenResult
                           ELSE [op |-> "InitializeNextSequence", isNew |-> r.isNew,
                                 err |-> r.err, element |-> NilElement,
                                 strategy |-> r.strategy]
           /\ genCall' = [genCall EXCEPT
                             !.pc = IF r.mutating THEN "checked" ELSE "idle",
                             !.corpusAtCheck = ActiveMutableSequenceCount(corpusSequences),
                             !.queueAtCheck = Len(unexecutedQueue),
                             !.queueHead = IF Len(unexecutedQueue) > 0
                                           THEN unexecutedQueue[1] ELSE <<>>,
                             !.source = r.baseSequence,
                             !.yielded = <<>>,
                             !.func = NULL,
                             !.taken = <<0, 0>>,
                             !.local = <<>>,
                             !.picked = <<>>]
    /\ UNCHANGED <<config, callSequenceLength, corpusSequences, generatorPanic>>

\* InitializeNextSequence from the Float32 roll to its return
InitializeNextSequenceEnd(roll, pick, sd) ==
    /\ ~generatorPanic
    /\ genCall.pc = "checked"
    /\ \E r \in {InitializeNextSequenceMutate(config, baseSequence, corpusSequences,
                                              unexecutedQueue, roll, pick, sd)} :
           /\ baseSequence' = r.baseSequence
           /\ fetchIndex' = r.fetchIndex
           /\ prefetchModifyCallFunc' =
                  IF r.err = NULL /\ ~r.panic /\ r.strategy # NoStrategy
                  THEN r.prefetchModifyCallFunc
                  ELSE prefetchModifyCallFunc
           /\ generatorPanic' = r.panic
           /\ genResult' = [op |-> "InitializeNextSequence", isNew |-> r.isNew,
                            err |-> r.err, element |-> NilElement,
                            strategy |-> r.strategy]
           /\ genCall' = [genCall EXCEPT !.pc = "idle", !.source = r.baseSequence,
                                         !.func = StrategyFunc(config, r.strategy),
                                         !.taken = StrategyTaken(config, r.strategy,
                                                                 corpusSequences,
                                                                 baseSequence, sd),
                                         !.local = StrategyLocal(config, r.strategy,
                                                                 corpusSequences,
                                                                 baseSequence, sd),
                                         !.picked = StrategyPicked(r.strategy,
                                                                   corpusSequences, sd)]
    /\ UNCHANGED <<config, callSequenceLength, corpusSequences, unexecutedQueue>>

\* another worker's CheckSequenceCoverageAndUpdate adds a sequence to the corpus
CorpusSequenceAdded ==
    /\ genCall.added < MaxCorpusAdds
    /\ corpusSequences' = Append(corpusSequences, <<CorpusElement(8), CorpusElement(9)>>)
    /\ genCall' = [genCall EXCEPT !.added = @ + 1]
    /\ UNCHANGED <<config, callSequenceLength, unexecutedQueue, baseSequence, fetchIndex,
                   prefetchModifyCallFunc, generatorPanic, genResult>>

PopSequenceElementCall(d, mutation) ==
    /\ ~generatorPanic
    /\ genCall.pc = "idle"
    /\ genResult.op # NULL
    /\ genResult.err = NULL
    /\ \E r \in {PopSequenceElement(GeneratorFields, stateChangingMethods, pureMethods,
                                    maxBlockNumberDelay, maxBlockTimestampDelay,
                                    GenChainNonce, d, mutation)} :
           /\ baseSequence' = r.g.baseSequence
           /\ fetchIndex' = r.g.fetchIndex
           /\ prefetchModifyCallFunc' = r.g.prefetchModifyCallFunc
           /\ genResult' = [op |-> "PopSequenceElement", isNew |-> genResult.isNew,
                            err |-> r.err, element |-> r.element,
                            strategy |-> genResult.strategy]
           /\ genCall' = IF IsNil(r.element) THEN genCall
                         ELSE [genCall EXCEPT !.yielded = Append(@, r.element)]
    /\ UNCHANGED <<config, callSequenceLength, corpusSequences, unexecutedQueue,
                   generatorPanic>>

GenNext ==
    \/ InitializeNextSequenceBegin
    \/ \E roll \in Float32Rolls, pick \in ChooserRaws :
           \E sd \in InitDraws(config, pick, CorpusPickRaws, 0..MaxGenLen, RoundRaws) :
               InitializeNextSequenceEnd(roll, pick, sd)
    \/ CorpusSequenceAdded
    \/ \E d \in GenElemDraws, mutation \in MutationRaws : PopSequenceElementCall(d, mutation)

\* a worker with the Token contract deployed and view methods tested
GenWorker ==
    updateMethods(MapPut(EmptyMap, "0xA1", "Token"), <<"0xA1">>, TRUE)

GenElemInit ==
    /\ deployedContracts = MapPut(EmptyMap, "0xA1", "Token")
    /\ stateChangingMethods = GenWorker.stateChangingMethods
    /\ pureMethods = GenWorker.pureMethods
    /\ valueSetAddresses = {"0xA1"}
    /\ testingConfig = DefaultTestingConfig
    /\ maxBlockNumberDelay = 0
    /\ maxBlockTimestampDelay = 0
    /\ eventResult = [err |-> NULL]
    /\ lastElement = NoElement

\* a worker with no contract deployed, and so no method to call
GenElemNoMethodsInit ==
    /\ deployedContracts = EmptyMap
    /\ stateChangingMethods = <<>>
    /\ pureMethods = <<>>
    /\ valueSetAddresses = {}
    /\ callSequenceLength = MaxSeqLen
    /\ testingConfig = DefaultTestingConfig
    /\ maxBlockNumberDelay = 0
    /\ maxBlockTimestampDelay = 0
    /\ eventResult = [err |-> NULL]
    /\ lastElement = NoElement

(***************************************************************************)
(* The fuzzer worker: run, testNextCallSequence, testShrunkenCallSequence  *)
(* and shrinkCallSequence, one step per action.  The test chain, the       *)
(* corpus, the test functions and calls.ExecuteCallSequenceIteratively are *)
(* outside the sources and are modelled from their interfaces.             *)
(***************************************************************************)
MaxResetLimit == 2

MaxShrinkLimit == 2

\* the head block number of the chain once the contracts are deployed
SetupHeadBlockNumber == 1

\* the chain is the list of blocks (one executed call each) above the setup
HeadBlockNumber(blocks) == SetupHeadBlockNumber + Len(blocks)

RevertToBlockNumber(blocks, number) == SubSeq(blocks, 1, number - SetupHeadBlockNumber)

\* the Token fixture: a call with an argument above the sender's balance fails
TokenBalance == 1

\* the receipt status of the message result of an executed call
ReceiptStatus(element) ==
    IF Len(element.InputValues) > 0 /\ element.InputValues[1] > TokenBalance
    THEN "failed"
    ELSE "successful"

\* the call as executed: element.ChainReference points at its message result
WithChainReference(element) ==
    [f \in DOMAIN element \cup {"ChainReference"} |->
        IF f = "ChainReference" THEN ReceiptStatus(element) ELSE element[f]]

\* the test functions registered in fuzzer.Hooks.CallSequenceTestFuncs, each
\* named by the verifier of the shrink requests it emits
CallSequenceTestFuncs == <<"argOne", "twoCalls", "viewFailed">>

\* ShrinkCallSequenceRequest.VerifierFunction: the property is violated in the
\* state the chain is in
VerifierFunction(verifier, blocks) ==
    CASE verifier = "argOne" -> \E i \in 1..Len(blocks) : blocks[i].InputValues = <<1>>
      [] verifier = "twoCalls" ->
             Cardinality({i \in 1..Len(blocks) : blocks[i].From = Senders[1]}) >= 2
      [] verifier = "viewFailed" ->
             \E i \in 1..Len(blocks) :
                 blocks[i].Method = "balanceOf" /\ blocks[i].ChainReference = "failed"

ShrinkCallSequenceRequest(verifier) ==
    [VerifierFunction |-> verifier, RecordResultInCorpus |-> TRUE]

\* a CallSequenceTestFunc: a shrink request when its property is violated
callSequenceTestFunc(verifier, blocks) ==
    IF VerifierFunction(verifier, blocks) THEN <<ShrinkCallSequenceRequest(verifier)>> ELSE <<>>

getNewCorpusCallSequenceWeight_Unshifted(metrics) == metrics.sequencesTested

getNewCorpusCallSequenceWeight(metrics) == metrics.sequencesTested + 1

\* utils.CheckContextDone as the worker calls it: a poll that finds the context
\* done is noted in the worker's log
CheckContextDone(log, done) == IF done THEN Append(log, <<"CheckContextDone", 1>>) ELSE log

\* the loop over the test functions in testNextCallSequence's executionCheckFunc;
\* failing is the index of the test function that returns an error (0: none)
RECURSIVE TestFuncLoop_ErrorAfterLoop(_, _, _, _, _)
TestFuncLoop_ErrorAfterLoop(i, blocks, failing, requests, log) ==
    IF i > Len(CallSequenceTestFuncs)
    THEN [err |-> IF failing \in 1..Len(CallSequenceTestFuncs)
                  THEN "test function error" ELSE NULL,
          requests |-> requests, log |-> log]
    ELSE TestFuncLoop_ErrorAfterLoop(
             i + 1, blocks, failing,
             requests \o callSequenceTestFunc(CallSequenceTestFuncs[i], blocks),
             IF i = failing
             THEN log \o <<(<<"testFunc", i>>), (<<"testFunc error", i>>)>>
             ELSE Append(log, <<"testFunc", i>>))

RECURSIVE TestFuncLoop_StopsAtFirstRequest(_, _, _, _, _)
TestFuncLoop_StopsAtFirstRequest(i, blocks, failing, requests, log) ==
    IF i > Len(CallSequenceTestFuncs) \/ Len(requests) > 0
    THEN [err |-> NULL, requests |-> requests, log |-> log]
    ELSE IF i = failing
    THEN [err |-> "test function error", requests |-> requests,
          log |-> log \o <<(<<"testFunc", i>>), (<<"testFunc error", i>>)>>]
    ELSE TestFuncLoop_StopsAtFirstRequest(
             i + 1, blocks, failing,
             requests \o callSequenceTestFunc(CallSequenceTestFuncs[i], blocks),
             Append(log, <<"testFunc", i>>))

RECURSIVE TestFuncLoop(_, _, _, _, _)
TestFuncLoop(i, blocks, failing, requests, log) ==
    IF i > Len(CallSequenceTestFuncs)
    THEN [err |-> NULL, requests |-> requests, log |-> log]
    ELSE IF i = failing
    THEN [err |-> "test function error", requests |-> requests,
          log |-> log \o <<(<<"testFunc", i>>), (<<"testFunc error", i>>)>>]
    ELSE TestFuncLoop(i + 1, blocks, failing,
                      requests \o callSequenceTestFunc(CallSequenceTestFuncs[i], blocks),
                      Append(log, <<"testFunc", i>>))

\* testNextCallSequence's executionCheckFunc after one executed element
NextExecutionCheck(blocks, requests, metrics, done, corpusFails, failing, log) ==
    LET submitted == Append(log, <<"CheckSequenceCoverageAndUpdate",
                                   getNewCorpusCallSequenceWeight(metrics)>>)
        tested == TestFuncLoop(1, blocks, failing, requests, submitted)
    IN  IF corpusFails
        THEN [stop |-> TRUE, err |-> "corpus error", requests |-> requests, log |-> submitted]
        ELSE IF tested.err # NULL
        THEN [stop |-> TRUE, err |-> tested.err, requests |-> tested.requests,
              log |-> tested.log]
        ELSE [stop |-> done \/ Len(tested.requests) > 0, err |-> NULL,
              requests |-> tested.requests,
              log |-> CheckContextDone(Append(tested.log, <<"metrics", 0>>), done)]

\* testShrunkenCallSequence's executionCheckFunc after one executed element
ShrunkenExecutionCheck(metrics, done, corpusFails, log) ==
    LET submitted == Append(log, <<"CheckSequenceCoverageAndUpdate",
                                   getNewCorpusCallSequenceWeight(metrics)>>)
    IN  IF corpusFails
        THEN [stop |-> TRUE, err |-> "corpus error", log |-> submitted]
        ELSE [stop |-> done, err |-> NULL, log |-> CheckContextDone(submitted, done)]

NoExecution == [mode |-> NULL, executed |-> <<>>, err |-> NULL]

NoCallResult == [returned |-> FALSE, sequence |-> <<>>, requests |-> <<>>, valid |-> FALSE,
                 cancelled |-> FALSE, err |-> NULL]

CallResult(sequence, requests, valid, cancelled, err) ==
    [returned |-> TRUE, sequence |-> sequence, requests |-> requests, valid |-> valid,
     cancelled |-> cancelled, err |-> err]

NoShrink ==
    [callSequence |-> <<>>, requests |-> <<>>, requestIndex |-> 0, optimizedSequence |-> <<>>,
     candidate |-> <<>>, stage |-> NULL, shrinkIteration |-> 0, shrinkLimit |-> 0, i |-> 0,
     accepted |-> {}, cleanAccepted |-> {}, tests |-> 0, reported |-> <<>>]

WorkerElemDraws == ElementDraws({57}, {0}, {1, 2}, {0})

\* the generator draws of a worker whose corpus has no mutable sequence
WorkerInitDraws == StrategyDraws("CorpusHead", {0}, {0}, {0})

WorkerConfig == WeightsAll(1) @@ [NewSequenceProbability |-> 50]

\* the sequences the worker's slot has tested before this worker was created:
\* the slot's metrics outlive a worker that reached its reset limit
MaxPriorSequences == 1

\* an unexecuted corpus sequence of two calls that revert, made by the second
\* sender, and a call that violates the property of the first test function
RevertingSequence ==
    <<[CorpusElement(1) EXCEPT !.From = Senders[2]],
      [CorpusElement(2) EXCEPT !.From = Senders[2]],
      [CorpusElement(1) EXCEPT !.InputValues = <<1>>]>>

\* a shrink limit that outlasts the removal of the reverting calls by two
\* iterations
RevertsShrinkLimit == Len(RevertingSequence) + 2

\* the worker in run, once its chain is set up and testingBaseBlockNumber is set
WorkerInit ==
    /\ wpc = "run"
    /\ ctxDone = FALSE
    /\ chain = <<>>
    /\ testingBaseBlockNumber = HeadBlockNumber(<<>>)
    /\ sequencesTested = 0
    /\ workerResetLimit \in 1..MaxResetLimit
    /\ shrinkLimitConfig \in 0..MaxShrinkLimit \cup {RevertsShrinkLimit}
    /\ \E prior \in {0, MaxPriorSequences} :
           workerMetrics = [sequencesTested |-> prior, shrinking |-> FALSE]
    /\ exec = NoExecution
    /\ isNewSequence = FALSE
    /\ shrinkCallSequenceRequests = <<>>
    /\ tncsResult = NoCallResult
    /\ tscsResult = NoCallResult
    /\ shrinkResult = NoCallResult
    /\ runResult = NoCallResult
    /\ shrink = NoShrink
    /\ workerLog = <<>>
    /\ testNextCalls = 0
    /\ revertFailed = FALSE

WorkerGenInit ==
    /\ config = WorkerConfig
    /\ callSequenceLength \in 1..MaxSeqLen
    /\ corpusSequences = <<>>
    /\ unexecutedQueue \in GenUnexecuted \cup {<<RevertingSequence>>}
    \* the sequence of reverting calls is shrunk with the long limit, by a worker
    \* that is reset after it
    /\ (shrinkLimitConfig = RevertsShrinkLimit) = (unexecutedQueue = <<RevertingSequence>>)
    /\ unexecutedQueue = <<RevertingSequence>> =>
           /\ callSequenceLength = 1
           /\ workerResetLimit = 1
           /\ workerMetrics.sequencesTested = 0
    /\ baseSequence = <<>>
    /\ fetchIndex = 0
    /\ prefetchModifyCallFunc = NULL
    /\ generatorPanic = FALSE
    /\ genResult = NoGenResult
    /\ genCall = NoGenCall

\* the fuzzer's context is cancelled (by another goroutine) at any moment
Cancel ==
    /\ wpc # "returned"
    /\ ~ctxDone
    /\ ctxDone' = TRUE
    /\ UNCHANGED <<wpc, chain, testingBaseBlockNumber, sequencesTested, workerResetLimit,
                   shrinkLimitConfig, workerMetrics, exec, isNewSequence,
                   shrinkCallSequenceRequests, tncsResult, tscsResult, shrinkResult,
                   runResult, shrink, workerLog, testNextCalls, revertFailed, genVars>>

\* run's loop head: the loop condition and the context check
RunLoop ==
    /\ wpc = "run"
    /\ IF sequencesTested <= workerResetLimit
       THEN IF ctxDone
            THEN /\ wpc' = "returned"
                 /\ runResult' = CallResult(<<>>, <<>>, FALSE, TRUE, NULL)
            ELSE /\ wpc' = "testNextCallSequence"
                 /\ UNCHANGED runResult
       ELSE /\ wpc' = "returned"
            /\ runResult' = CallResult(<<>>, <<>>, FALSE, FALSE, NULL)
    /\ workerLog' = IF sequencesTested <= workerResetLimit
                    THEN CheckContextDone(workerLog, ctxDone)
                    ELSE workerLog
    /\ UNCHANGED <<ctxDone, chain, testingBaseBlockNumber, sequencesTested, workerResetLimit,
                   shrinkLimitConfig, workerMetrics, exec, isNewSequence,
                   shrinkCallSequenceRequests, tncsResult, tscsResult, shrinkResult,
                   shrink, testNextCalls, revertFailed, genVars>>

\* testNextCallSequence up to the call of ExecuteCallSequenceIteratively
TestNextCallSequenceBegin(roll, pick, sd) ==
    /\ wpc = "testNextCallSequence"
    /\ LET r == InitializeNextSequence(config, callSequenceLength, corpusSequences,
                                       unexecutedQueue, roll, pick, sd)
       IN  /\ baseSequence' = r.baseSequence
           /\ fetchIndex' = r.fetchIndex
           /\ prefetchModifyCallFunc' = r.prefetchModifyCallFunc
           /\ unexecutedQueue' = r.unexecutedQueue
           /\ generatorPanic' = r.panic
           /\ genResult' = [op |-> "InitializeNextSequence", isNew |-> r.isNew,
                            err |-> r.err, element |-> NilElement,
                            strategy |-> r.strategy]
           /\ isNewSequence' = r.isNew
           /\ exec' = [mode |-> "testNextCallSequence", executed |-> <<>>, err |-> r.err]
           /\ wpc' = IF r.panic THEN "panicked"
                     ELSE IF r.err # NULL THEN "testNextCallSequence return"
                     ELSE "executing"
    /\ shrinkCallSequenceRequests' = <<>>
    /\ tncsResult' = NoCallResult
    /\ tscsResult' = NoCallResult
    /\ shrinkResult' = NoCallResult
    /\ shrink' = NoShrink
    /\ workerLog' = <<>>
    /\ testNextCalls' = testNextCalls + 1
    /\ UNCHANGED <<ctxDone, chain, testingBaseBlockNumber, sequencesTested, workerResetLimit,
                   shrinkLimitConfig, workerMetrics, runResult, revertFailed,
                   config, callSequenceLength, corpusSequences, genCall>>

\* one round of ExecuteCallSequenceIteratively for testNextCallSequence: fetch
\* from the generator, execute in a new block, run the execution check
ExecuteNextElement(d, corpusFails, failing) ==
    /\ wpc = "executing"
    /\ exec.mode = "testNextCallSequence"
    /\ LET popped == PopSequenceElement(GeneratorFields, stateChangingMethods, pureMethods,
                                        maxBlockNumberDelay, maxBlockTimestampDelay,
                                        HeadBlockNumber(chain), d, 0)
           element == WithChainReference(popped.element)
           blocks == Append(chain, element)
           check == NextExecutionCheck(blocks, shrinkCallSequenceRequests, workerMetrics,
                                       ctxDone, corpusFails, failing, workerLog)
       IN  IF popped.err # NULL \/ IsNil(popped.element)
           THEN /\ exec' = [exec EXCEPT !.err = popped.err]
                /\ wpc' = "testNextCallSequence return"
                /\ UNCHANGED <<chain, shrinkCallSequenceRequests, workerLog, baseSequence,
                               fetchIndex, prefetchModifyCallFunc>>
           ELSE /\ baseSequence' = popped.g.baseSequence
                /\ fetchIndex' = popped.g.fetchIndex
                /\ prefetchModifyCallFunc' = popped.g.prefetchModifyCallFunc
                /\ chain' = blocks
                /\ exec' = [exec EXCEPT !.executed = Append(@, element), !.err = check.err]
                /\ shrinkCallSequenceRequests' = check.requests
                /\ workerLog' = check.log
                /\ wpc' = IF check.stop THEN "testNextCallSequence return" ELSE "executing"
    /\ UNCHANGED <<ctxDone, testingBaseBlockNumber, sequencesTested, workerResetLimit,
                   shrinkLimitConfig, workerMetrics, isNewSequence, tncsResult, tscsResult,
                   shrinkResult, runResult, shrink, testNextCalls, revertFailed,
                   config, callSequenceLength, corpusSequences, unexecutedQueue,
                   generatorPanic, genResult, genCall>>

\* the deferred function of testNextCallSequence and testShrunkenCallSequence:
\* the chain is reverted only if err is nil; the value RevertToBlockNumber returns
\* is assigned to the local err after the results were evaluated
DeferredRevert(blocks, base, err, revertFails) ==
    IF err # NULL \/ revertFails THEN blocks ELSE RevertToBlockNumber(blocks, base)

RecordResultInCorpusOff(requests) ==
    [i \in 1..Len(requests) |-> [requests[i] EXCEPT !.RecordResultInCorpus = FALSE]]

\* testNextCallSequence after ExecuteCallSequenceIteratively, to its return
TestNextCallSequenceReturn(revertFails) ==
    /\ wpc = "testNextCallSequence return"
    /\ tncsResult' =
           IF exec.err # NULL THEN CallResult(<<>>, <<>>, FALSE, FALSE, exec.err)
           ELSE IF ctxDone THEN CallResult(<<>>, <<>>, FALSE, FALSE, NULL)
           ELSE CallResult(exec.executed,
                           IF isNewSequence THEN shrinkCallSequenceRequests
                           ELSE RecordResultInCorpusOff(shrinkCallSequenceRequests),
                           FALSE, FALSE, NULL)
    /\ chain' = DeferredRevert(chain, testingBaseBlockNumber, exec.err, revertFails)
    /\ revertFailed' = (revertFailed \/ (exec.err = NULL /\ revertFails))
    /\ workerLog' = IF exec.err = NULL
                    THEN Append(CheckContextDone(workerLog, ctxDone),
                                <<"RevertToBlockNumber", testingBaseBlockNumber>>)
                    ELSE workerLog
    /\ wpc' = "testNextCallSequence returned"
    /\ UNCHANGED <<ctxDone, testingBaseBlockNumber, sequencesTested, workerResetLimit,
                   shrinkLimitConfig, workerMetrics, exec, isNewSequence,
                   shrinkCallSequenceRequests, tscsResult, shrinkResult, runResult, shrink,
                   testNextCalls, genVars>>

\* run's loop body after one sequence and all its shrink requests
SequenceTested ==
    /\ sequencesTested' = sequencesTested + 1
    /\ workerMetrics' = [workerMetrics EXCEPT !.sequencesTested = @ + 1]
    /\ wpc' = "run"

\* run after testNextCallSequence returned
RunAfterTestNext ==
    /\ wpc = "testNextCallSequence returned"
    /\ IF tncsResult.err # NULL
       THEN /\ wpc' = "returned"
            /\ runResult' = CallResult(<<>>, <<>>, FALSE, FALSE, tncsResult.err)
            /\ UNCHANGED <<sequencesTested, workerMetrics, shrink>>
       ELSE IF Len(tncsResult.requests) > 0
       THEN /\ wpc' = "shrinkCallSequence"
            /\ shrink' = [NoShrink EXCEPT !.callSequence = tncsResult.sequence,
                                          !.requests = tncsResult.requests,
                                          !.requestIndex = 1]
            /\ UNCHANGED <<sequencesTested, workerMetrics, runResult>>
       ELSE /\ SequenceTested
            /\ UNCHANGED <<runResult, shrink>>
    /\ UNCHANGED <<ctxDone, chain, testingBaseBlockNumber, workerResetLimit,
                   shrinkLimitConfig, exec, isNewSequence, shrinkCallSequenceRequests,
                   tncsResult, tscsResult, shrinkResult, workerLog, testNextCalls,
                   revertFailed, genVars>>

\* uint64 arithmetic of the shrink counters: a negative n stands for 2^64 + n
Dec64(x) == x - 1

Ge64(a, b) == IF (a < 0) = (b < 0) THEN a >= b ELSE a < 0

\* shrinkCallSequence's shrinkingEnded closure
shrinkingEnded_LimitIgnored(s, done) == done

shrinkingEnded(s, done) == Ge64(s.shrinkIteration, s.shrinkLimit) \/ done

\* the log after a call of shrinkingEnded: the context is polled only when the
\* iteration count is below the limit
shrinkingEndedLog(s, log, done) ==
    IF Ge64(s.shrinkIteration, s.shrinkLimit) THEN log ELSE CheckContextDone(log, done)

RemoveAt(sequence, i) == SubSeq(sequence, 1, i) \o SubSeq(sequence, i + 2, Len(sequence))

\* CallSequence.Clone: a deep copy
Clone(sequence) == sequence

shrinkParam(sequence, raw, mutation) ==
    LET i == Intn(raw, Len(sequence))
    IN  [sequence EXCEPT ![i + 1] = prefetchModifyCallFuncMutate(@, mutation)]

shorten(sequence, raw) == RemoveAt(sequence, Intn(raw, Len(sequence)))

ShrinkIndexRaws == 0..MaxSeqLen

ShrinkMutationRaws == {0, 1}

CurrentRequest == shrink.requests[shrink.requestIndex]

\* testShrunkenCallSequence is entered with the candidate
TestShrunkenCallSequenceBegin ==
    /\ exec' = [mode |-> "testShrunkenCallSequence", executed |-> <<>>, err |-> NULL]
    /\ wpc' = "executing"

\* shrinkCallSequence up to its first loop
ShrinkCallSequenceBegin ==
    /\ wpc = "shrinkCallSequence"
    /\ shrink' = [shrink EXCEPT !.optimizedSequence = shrink.callSequence,
                                !.candidate = <<>>, !.stage = "reverts",
                                !.shrinkIteration = 0, !.shrinkLimit = shrinkLimitConfig,
                                !.i = 0, !.accepted = {}, !.tests = 0, !.reported = <<>>]
    /\ shrinkResult' = NoCallResult
    /\ IF shrinkLimitConfig > 0
       THEN /\ workerMetrics' = [workerMetrics EXCEPT !.shrinking = TRUE]
            /\ wpc' = "remove reverts"
       ELSE /\ wpc' = "shrinkCallSequence finish"
            /\ UNCHANGED workerMetrics
    /\ UNCHANGED <<ctxDone, chain, testingBaseBlockNumber, sequencesTested, workerResetLimit,
                   shrinkLimitConfig, exec, isNewSequence, shrinkCallSequenceRequests,
                   tncsResult, tscsResult, runResult, workerLog, testNextCalls,
                   revertFailed, genVars>>

\* one iteration of the loop that removes reverting calls, or, at its end, the
\* call of testShrunkenCallSequence on withoutReverts
RemoveRevertsStep ==
    /\ wpc = "remove reverts"
    /\ IF shrink.i < Len(shrink.optimizedSequence) /\ ~shrinkingEnded(shrink, ctxDone)
       THEN LET withoutReverts == Clone(shrink.optimizedSequence)
                lastCall == withoutReverts[shrink.i + 1]
            IN  /\ shrink' = [shrink EXCEPT
                                 !.candidate = IF lastCall.ChainReference = "failed"
                                               THEN RemoveAt(withoutReverts, shrink.i)
                                               ELSE withoutReverts,
                                 !.shrinkLimit = Dec64(@),
                                 !.i = @ + 1]
                /\ UNCHANGED <<wpc, exec>>
       ELSE /\ TestShrunkenCallSequenceBegin
            /\ shrink' = [shrink EXCEPT !.tests = @ + 1]
    /\ workerLog' = IF shrink.i < Len(shrink.optimizedSequence)
                    THEN shrinkingEndedLog(shrink, workerLog, ctxDone)
                    ELSE workerLog
    /\ UNCHANGED <<ctxDone, chain, testingBaseBlockNumber, sequencesTested, workerResetLimit,
                   shrinkLimitConfig, workerMetrics, isNewSequence,
                   shrinkCallSequenceRequests, tncsResult, tscsResult, shrinkResult,
                   runResult, testNextCalls, revertFailed, genVars>>

\* one round of ExecuteCallSequenceIteratively for testShrunkenCallSequence: the
\* candidate's next element is stamped from the chain and executed in place
ExecuteShrunkenElement(corpusFails) ==
    /\ wpc = "executing"
    /\ exec.mode = "testShrunkenCallSequence"
    /\ LET currentIndex == Len(exec.executed)
       IN  IF currentIndex >= Len(shrink.candidate)
           THEN /\ wpc' = "testShrunkenCallSequence return"
                /\ UNCHANGED <<chain, exec, shrink, workerLog>>
           ELSE LET element == WithChainReference(
                                   FillFromTestChainProperties(
                                       shrink.candidate[currentIndex + 1],
                                       HeadBlockNumber(chain)))
                    check == ShrunkenExecutionCheck(workerMetrics, ctxDone, corpusFails,
                                                    workerLog)
                IN  /\ shrink' = [shrink EXCEPT !.candidate[currentIndex + 1] = element]
                    /\ chain' = Append(chain, element)
                    /\ exec' = [exec EXCEPT !.executed = Append(@, element),
                                            !.err = check.err]
                    /\ workerLog' = check.log
                    /\ wpc' = IF check.stop THEN "testShrunkenCallSequence return"
                              ELSE "executing"
    /\ UNCHANGED <<ctxDone, testingBaseBlockNumber, sequencesTested, workerResetLimit,
                   shrinkLimitConfig, workerMetrics, isNewSequence,
                   shrinkCallSequenceRequests, tncsResult, tscsResult, shrinkResult,
                   runResult, testNextCalls, revertFailed, genVars>>

validShrunkSequence_Unverified(candidate, verifier, blocks) == TRUE

validShrunkSequence_EmptyAsked(candidate, verifier, blocks) == VerifierFunction(verifier, blocks)

\* testShrunkenCallSequence's result on the non-error path: the verifier is
\* asked only about a non-empty candidate
validShrunkSequence(candidate, verifier, blocks) ==
    Len(candidate) > 0 /\ VerifierFunction(verifier, blocks)

\* testShrunkenCallSequence after ExecuteCallSequenceIteratively, to its return
TestShrunkenCallSequenceReturn(revertFails) ==
    /\ wpc = "testShrunkenCallSequence return"
    /\ tscsResult' =
           IF exec.err # NULL THEN CallResult(<<>>, <<>>, FALSE, FALSE, exec.err)
           ELSE IF ctxDone THEN CallResult(<<>>, <<>>, FALSE, FALSE, NULL)
           ELSE CallResult(<<>>, <<>>,
                           validShrunkSequence(shrink.candidate,
                                               CurrentRequest.VerifierFunction, chain),
                           FALSE, NULL)
    /\ chain' = DeferredRevert(chain, testingBaseBlockNumber, exec.err, revertFails)
    /\ revertFailed' = (revertFailed \/ (exec.err = NULL /\ revertFails))
    /\ workerLog' = IF exec.err = NULL
                    THEN Append(CheckContextDone(workerLog, ctxDone),
                                <<"RevertToBlockNumber", testingBaseBlockNumber>>)
                    ELSE workerLog
    /\ wpc' = "testShrunkenCallSequence returned"
    /\ UNCHANGED <<ctxDone, testingBaseBlockNumber, sequencesTested, workerResetLimit,
                   shrinkLimitConfig, workerMetrics, exec, isNewSequence,
                   shrinkCallSequenceRequests, tncsResult, shrinkResult, runResult, shrink,
                   testNextCalls, genVars>>

KeepIfValid_Always(optimizedSequence, candidate, valid) == candidate

\* optimizedSequence after a tested candidate: replaced only by a valid one
KeepIfValid(optimizedSequence, candidate, valid) ==
    IF valid THEN candidate ELSE optimizedSequence

\* shrinkCallSequence after a call of testShrunkenCallSequence returned
ShrinkAfterTestShrunken ==
    /\ wpc = "testShrunkenCallSequence returned"
    /\ LET counted == IF shrink.stage = "loop"
                      THEN [shrink EXCEPT !.shrinkIteration = @ + 1]
                      ELSE shrink
           kept == [counted EXCEPT
                       !.optimizedSequence = KeepIfValid(@, shrink.candidate,
                                                         tscsResult.valid)]
           promoted == IF tscsResult.valid
                       THEN [kept EXCEPT !.accepted = @ \cup {shrink.candidate}]
                       ELSE kept
       IN  IF tscsResult.err # NULL
           THEN /\ shrink' = counted
                /\ shrinkResult' = CallResult(<<>>, <<>>, FALSE, FALSE, tscsResult.err)
                /\ wpc' = "shrinkCallSequence returned"
           ELSE /\ shrink' = IF shrink.stage = "loop"
                             THEN [promoted EXCEPT !.shrinkLimit = Dec64(@)]
                             ELSE promoted
                /\ wpc' = "shrink loop"
                /\ UNCHANGED shrinkResult
    /\ UNCHANGED <<ctxDone, chain, testingBaseBlockNumber, sequencesTested, workerResetLimit,
                   shrinkLimitConfig, workerMetrics, exec, isNewSequence,
                   shrinkCallSequenceRequests, tncsResult, tscsResult, runResult,
                   workerLog, testNextCalls, revertFailed, genVars>>

\* one iteration of the alternating loop up to the call of
\* testShrunkenCallSequence, or the loop's end
ShrinkLoopStep(coinToss, raw, mutation) ==
    /\ wpc = "shrink loop"
    /\ IF ~shrinkingEnded(shrink, ctxDone)
       THEN LET possibleShrunkSequence == Clone(shrink.optimizedSequence)
            IN  IF Len(possibleShrunkSequence) = 0
                THEN /\ wpc' = "panicked"             \* rand.Intn(0)
                     /\ UNCHANGED <<shrink, exec, workerMetrics>>
                ELSE /\ shrink' =
                            [shrink EXCEPT
                                !.candidate =
                                    IF coinToss = 0 \/ Len(possibleShrunkSequence) = 1
                                    THEN shrinkParam(possibleShrunkSequence, raw, mutation)
                                    ELSE shorten(possibleShrunkSequence, raw),
                                !.stage = "loop", !.tests = @ + 1]
                     /\ TestShrunkenCallSequenceBegin
                     /\ UNCHANGED workerMetrics
       ELSE /\ workerMetrics' = [workerMetrics EXCEPT !.shrinking = FALSE]
            /\ wpc' = "shrinkCallSequence finish"
            /\ UNCHANGED <<shrink, exec>>
    /\ workerLog' = shrinkingEndedLog(shrink, workerLog, ctxDone)
    /\ UNCHANGED <<ctxDone, chain, testingBaseBlockNumber, sequencesTested, workerResetLimit,
                   shrinkLimitConfig, isNewSequence, shrinkCallSequenceRequests, tncsResult,
                   tscsResult, shrinkResult, runResult, testNextCalls,
                   revertFailed, genVars>>

ShrinkFinishFailures ==
    {"none", "corpus error", "first revert error", "callback error", "second revert error"}

\* shrinkRequest.FinishedCallback: the test provider replays the sequence with
\* tracing on the worker's chain
FinishedCallback(blocks, sequence) == blocks \o sequence

ResetBeforeFinishedCallback_Skipped(blocks, base) == blocks

\* the chain as the finished-callback finds it: reverted to the testing base
ResetBeforeFinishedCallback(blocks, base) == RevertToBlockNumber(blocks, base)

\* shrinkCallSequence after its loops: the result is recorded, the chain
\* reverted, the finished-callback invoked and the chain reverted again
ShrinkCallSequenceFinish(failure) ==
    /\ wpc = "shrinkCallSequence finish"
    /\ LET record == CurrentRequest.RecordResultInCorpus
           recorded ==
               IF record
               THEN Append(workerLog, <<"AddTestResultCallSequence",
                                        getNewCorpusCallSequenceWeight(workerMetrics)>>)
               ELSE workerLog
           reverting == Append(recorded, <<"RevertToBlockNumber", testingBaseBlockNumber>>)
           reverted == ResetBeforeFinishedCallback(chain, testingBaseBlockNumber)
           calling == Append(reverting, <<"FinishedCallback", HeadBlockNumber(reverted)>>)
           called == FinishedCallback(reverted, shrink.optimizedSequence)
           finishing == Append(calling, <<"RevertToBlockNumber", testingBaseBlockNumber>>)
           Failed(blocks, log, err) ==
               /\ chain' = blocks
               /\ workerLog' = log
               /\ shrinkResult' = CallResult(<<>>, <<>>, FALSE, FALSE, err)
       IN  CASE failure = "corpus error" /\ record -> Failed(chain, recorded, failure)
             [] failure = "first revert error" -> Failed(chain, reverting, failure)
             [] failure = "callback error" -> Failed(called, calling, failure)
             [] failure = "second revert error" -> Failed(called, finishing, failure)
             [] OTHER ->
                  /\ chain' = RevertToBlockNumber(called, testingBaseBlockNumber)
                  /\ workerLog' = finishing
                  /\ shrinkResult' = CallResult(shrink.optimizedSequence, <<>>, TRUE,
                                                FALSE, NULL)
    /\ shrink' = IF \/ (failure = "corpus error" /\ CurrentRequest.RecordResultInCorpus)
                     \/ failure = "first revert error"
                  THEN shrink
                  ELSE [shrink EXCEPT !.reported = Append(@, shrink.optimizedSequence)]
    /\ wpc' = "shrinkCallSequence returned"
    /\ UNCHANGED <<ctxDone, testingBaseBlockNumber, sequencesTested, workerResetLimit,
                   shrinkLimitConfig, workerMetrics, exec, isNewSequence,
                   shrinkCallSequenceRequests, tncsResult, tscsResult, runResult,
                   testNextCalls, revertFailed, genVars>>

\* run after shrinkCallSequence returned: the next shrink request, or the end
\* of the loop body
RunAfterShrink ==
    /\ wpc = "shrinkCallSequence returned"
    /\ IF shrinkResult.err # NULL
       THEN /\ wpc' = "returned"
            /\ runResult' = CallResult(<<>>, <<>>, FALSE, FALSE, shrinkResult.err)
            /\ UNCHANGED <<sequencesTested, workerMetrics, shrink>>
       ELSE IF shrink.requestIndex < Len(shrink.requests)
       THEN /\ wpc' = "shrinkCallSequence"
            /\ shrink' = [shrink EXCEPT !.requestIndex = @ + 1]
            /\ UNCHANGED <<sequencesTested, workerMetrics, runResult>>
       ELSE /\ SequenceTested
            /\ UNCHANGED <<runResult, shrink>>
    /\ UNCHANGED <<ctxDone, chain, testingBaseBlockNumber, workerResetLimit,
                   shrinkLimitConfig, exec, isNewSequence, shrinkCallSequenceRequests,
                   tncsResult, tscsResult, shrinkResult, workerLog, testNextCalls,
                   revertFailed, genVars>>

WorkerNext ==
    \/ Cancel
    \/ RunLoop
    \/ \E roll \in {0}, pick \in {0}, sd \in WorkerInitDraws :
           TestNextCallSequenceBegin(roll, pick, sd)
    \/ \E d \in WorkerElemDraws, corpusFails \in BOOLEAN,
          failing \in 0..Len(CallSequenceTestFuncs) :
           ExecuteNextElement(d, corpusFails, failing)
    \/ \E revertFails \in BOOLEAN : TestNextCallSequenceReturn(revertFails)
    \/ RunAfterTestNext
    \/ ShrinkCallSequenceBegin
    \/ RemoveRevertsStep
    \/ \E corpusFails \in BOOLEAN : ExecuteShrunkenElement(corpusFails)
    \/ \E revertFails \in BOOLEAN : TestShrunkenCallSequenceReturn(revertFails)
    \/ ShrinkAfterTestShrunken
    \/ \E coinToss \in 0..1, raw \in ShrinkIndexRaws, mutation \in ShrinkMutationRaws :
           ShrinkLoopStep(coinToss, raw, mutation)
    \/ \E failure \in ShrinkFinishFailures : ShrinkCallSequenceFinish(failure)
    \/ RunAfterShrink

(***************************************************************************)
(* Two runs of one worker's generator: the same seed (the same raw draws), *)
(* the same configuration and the same contract deployment events.  Each   *)
(* run's updateMethods ranges over its own deployedContracts map.          *)
(***************************************************************************)
MaxDetElements == 2

Runs == {1, 2}

DetConfig == [TestViewMethods |-> TRUE, MaxBlockNumberDelay |-> 1, MaxBlockTimestampDelay |-> 1]

DetInit ==
    /\ detRuns = [r \in Runs |->
                     [deployedContracts |-> EmptyMap, stateChangingMethods |-> <<>>,
                      pureMethods |-> <<>>]]
    /\ detOut = [r \in Runs |-> <<>>]

\* the run's state after updateMethods on the map deployed, visited in order
DetUpdated(deployed, order) ==
    [deployedContracts |-> deployed] @@
    updateMethods(deployed, order, DetConfig.TestViewMethods)

\* both runs handle the same deployment event
DetDeploymentAdded(address, matched, orders) ==
    /\ \A r \in Runs : orders[r] \in IterationOrders(DOMAIN detRuns[r].deployedContracts
                                                      \cup {address})
    /\ detRuns' = [r \in Runs |->
                      DetUpdated(MapPut(detRuns[r].deployedContracts, address, matched),
                                 orders[r])]
    /\ UNCHANGED detOut

\* both runs handle the same removal event
DetDeploymentRemoved(address, orders) ==
    /\ \A r \in Runs : address \in DOMAIN detRuns[r].deployedContracts
    /\ \A r \in Runs : orders[r] \in IterationOrders(DOMAIN detRuns[r].deployedContracts
                                                      \ {address})
    /\ detRuns' = [r \in Runs |->
                      DetUpdated(MapDelete(detRuns[r].deployedContracts, address),
                                 orders[r])]
    /\ UNCHANGED detOut

\* both runs generate their next element from the same raw draws
DetGenerate(d) ==
    /\ \A r \in Runs : Len(detOut[r]) < MaxDetElements
    /\ LET res == [r \in Runs |->
                      generateNewElement(detRuns[r].stateChangingMethods,
                                         detRuns[r].pureMethods,
                                         DetConfig.MaxBlockNumberDelay,
                                         DetConfig.MaxBlockTimestampDelay, d)]
       IN  /\ \A r \in Runs : res[r].err = NULL
           /\ detOut' = [r \in Runs |-> Append(detOut[r], res[r].element)]
    /\ UNCHANGED detRuns

DetDraws == ElementDraws(Rolls, 0..1, {1}, {0})

DetNext ==
    \/ \E address \in Addresses, matched \in ContractNames,
          orders \in [Runs -> AllOrders] : DetDeploymentAdded(address, matched, orders)
    \/ \E address \in Addresses, orders \in [Runs -> AllOrders] :
           DetDeploymentRemoved(address, orders)
    \/ \E d \in DetDraws : DetGenerate(d)

(***************************************************************************)
(* Source analysis: fuzzing/coverage/source_analysis.go.                    *)
(* A compilation of two source files and one contract; the contract's       *)
(* runtime source map is the input, its init source map is empty.           *)
(***************************************************************************)
MaxSourceMapLen == 2

Newline == 10

\* compilation.SourceIdToPath: the source units the compilation knows
SourceIdToPath == (0 :> "A.sol" @@ 1 :> "B.sol")

\* source unit ids a source map element can carry; -1 maps to no file
SourceUnitIDs == {-1, 0, 1}

\* compilation.SourceCode, as bytes: "a\nb" and "c"
SourceCode == ("A.sol" :> <<97, Newline, 98>> @@ "B.sol" :> <<99>>)

SourcePaths == <<"A.sol", "B.sol">>

\* the function definitions of each source's AST: start and length of Src
FunctionDefinitions ==
    ("A.sol" :> << [Name |-> "f", Src |-> [Start |-> 0, Length |-> 1]],
                   [Name |-> "g", Src |-> [Start |-> 0, Length |-> 3]],
                   [Name |-> "h", Src |-> [Start |-> 2, Length |-> 1]],
                   [Name |-> "", Src |-> [Start |-> 0, Length |-> 3]] >>
     @@ "B.sol" :> << [Name |-> "k", Src |-> [Start |-> 0, Length |-> 1]] >>)

\* byte ranges a source map element can name in the sources above
Offsets == 0..(Len(SourceCode["A.sol"]) - 1)

Lengths == 0..(Len(SourceCode["A.sol"]) - 1)

SourceMapElements == [SourceUnitID : SourceUnitIDs, Offset : Offsets, Length : Lengths]

\* a source map of these elements; Index is the instruction index
SourceMapOf(elements) ==
    [i \in 1..Len(elements) |->
        [SourceUnitID |-> elements[i].SourceUnitID, Offset |-> elements[i].Offset,
         Length |-> elements[i].Length, Index |-> i - 1]]

\* filterSourceMaps' inner test, with >= where the source has <=
Encapsulates_Reversed(e, e2) ==
    /\ e2.Offset >= e.Offset
    /\ e2.Offset + e2.Length >= e.Offset + e.Length

\* filterSourceMaps' inner test: e2 lies within e
Encapsulates(e, e2) ==
    /\ e2.Offset >= e.Offset
    /\ e2.Offset + e2.Length <= e.Offset + e.Length

\* filterSourceMaps' inner loop for the element at i
encapsulatesOtherMapping(srcMap, i) ==
    \E x \in 1..Len(srcMap) :
        /\ i # x
        /\ srcMap[i].SourceUnitID = srcMap[x].SourceUnitID
        /\ ~(srcMap[i].Offset = srcMap[x].Offset /\ srcMap[i].Length = srcMap[x].Length)
        /\ Encapsulates(srcMap[i], srcMap[x])

RECURSIVE filterSourceMapsFrom(_, _, _)
filterSourceMapsFrom(idToPath, srcMap, i) ==
    IF i > Len(srcMap) THEN <<>>
    ELSE IF srcMap[i].SourceUnitID \notin DOMAIN idToPath
            THEN filterSourceMapsFrom(idToPath, srcMap, i + 1)
    ELSE IF ~encapsulatesOtherMapping(srcMap, i)
            THEN <<srcMap[i]>> \o filterSourceMapsFrom(idToPath, srcMap, i + 1)
    ELSE filterSourceMapsFrom(idToPath, srcMap, i + 1)

filterSourceMaps(idToPath, srcMap) == filterSourceMapsFrom(idToPath, srcMap, 1)

\* bytes.Split(sourceCode, "\n")
RECURSIVE Split(_)
Split(bytes) ==
    IF \A i \in 1..Len(bytes) : bytes[i] # Newline THEN <<bytes>>
    ELSE LET k == CHOOSE i \in 1..Len(bytes) :
                      bytes[i] = Newline /\ \A j \in 1..(i - 1) : bytes[j] # Newline
         IN  <<SubSeq(bytes, 1, k - 1)>> \o Split(SubSeq(bytes, k + 1, Len(bytes)))

RECURSIVE lineStart(_, _)
lineStart(pieces, i) == IF i = 1 THEN 0 ELSE lineStart(pieces, i - 1) + Len(pieces[i - 1]) + 1

parseSourceLines(sourceCode) ==
    LET pieces == Split(sourceCode)
    IN  [lines |-> [i \in 1..Len(pieces) |->
                       [IsActive |-> FALSE, Start |-> lineStart(pieces, i),
                        End |-> lineStart(pieces, i) + Len(pieces[i]) + 1,
                        IsCovered |-> FALSE, SuccessHitCount |-> 0, RevertHitCount |-> 0,
                        IsCoveredReverted |-> FALSE]],
         cumulativeOffset |-> [i \in 1..Len(pieces) |-> lineStart(pieces, i)]]

\* sort.Search(len(offsets), func(i) { return offsets[i] > x }) on an increasing list
SearchLine(offsets, x) == Cardinality({i \in 1..Len(offsets) : offsets[i] <= x})

\* the line update of analyzeContractSourceCoverage, marking a line covered
\* whether or not the element lies within it
MarkLine_Unchecked(sourceLine, offset, succHitCount, revertHitCount) ==
    LET succ == Max(sourceLine.SuccessHitCount, succHitCount)
        rev == sourceLine.RevertHitCount + revertHitCount
    IN  [sourceLine EXCEPT !.IsActive = @ \/ offset < sourceLine.End,
                           !.SuccessHitCount = succ, !.RevertHitCount = rev,
                           !.IsCovered = @ \/ succ > 0, !.IsCoveredReverted = @ \/ rev > 0]

\* the line update of analyzeContractSourceCoverage
MarkLine(sourceLine, offset, succHitCount, revertHitCount) ==
    IF offset < sourceLine.End
    THEN LET succ == Max(sourceLine.SuccessHitCount, succHitCount)
             rev == sourceLine.RevertHitCount + revertHitCount
         IN  [sourceLine EXCEPT !.IsActive = TRUE,
                                !.SuccessHitCount = succ, !.RevertHitCount = rev,
                                !.IsCovered = @ \/ succ > 0,
                                !.IsCoveredReverted = @ \/ rev > 0]
    ELSE sourceLine

\* hit counts are nil when the contract was never hit, else one count per instruction
HitCount(hitCounts, index) == IF index \in hitCounts THEN 1 ELSE 0

RECURSIVE analyzeContractSourceCoverage(_, _, _, _, _, _)
analyzeContractSourceCoverage(idToPath, files, srcMap, succHitCounts, revertHitCounts, i) ==
    IF i > Len(srcMap) THEN [Files |-> files, err |-> NULL]
    ELSE LET e == srcMap[i]
         IN  IF e.SourceUnitID = -1 \/ e.SourceUnitID \notin DOMAIN idToPath
             THEN analyzeContractSourceCoverage(idToPath, files, srcMap, succHitCounts,
                                                revertHitCounts, i + 1)
             ELSE IF idToPath[e.SourceUnitID] \notin DOMAIN files
                  THEN [Files |-> files, err |-> "missing source"]
             ELSE LET sourcePath == idToPath[e.SourceUnitID]
                      startLine == SearchLine(files[sourcePath].CumulativeOffsetByLine, e.Offset)
                  IN  analyzeContractSourceCoverage(idToPath,
                          [files EXCEPT ![sourcePath].Lines[startLine] =
                              MarkLine(@, e.Offset, HitCount(succHitCounts, e.Index),
                                       HitCount(revertHitCounts, e.Index))],
                          srcMap, succHitCounts, revertHitCounts, i + 1)

\* the first loop of AnalyzeSourceCoverage: one SourceFileAnalysis per source path
NewSourceFiles ==
    [p \in DOMAIN SourceCode |->
        [Path |-> p, CumulativeOffsetByLine |-> parseSourceLines(SourceCode[p]).cumulativeOffset,
         Lines |-> parseSourceLines(SourceCode[p]).lines, Functions |-> FunctionDefinitions[p]]]

NoFiles == [p \in {} |-> NULL]

SourceLines(file) == {file.Lines[i] : i \in 1..Len(file.Lines)}

FileLineCount(file) == Len(file.Lines)

FileActiveLineCount(file) == Cardinality({i \in 1..Len(file.Lines) : file.Lines[i].IsActive})

FileCoveredLineCount(file) ==
    Cardinality({i \in 1..Len(file.Lines) :
                    file.Lines[i].IsCovered \/ file.Lines[i].IsCoveredReverted})

RECURSIVE SumOverFiles(_, _)
SumOverFiles(counts, paths) ==
    IF paths = {} THEN 0
    ELSE LET p == CHOOSE q \in paths : TRUE
         IN  counts[p] + SumOverFiles(counts, paths \ {p})

LineCount(analysis) ==
    SumOverFiles([p \in DOMAIN analysis.Files |-> FileLineCount(analysis.Files[p])],
                 DOMAIN analysis.Files)

ActiveLineCount(analysis) ==
    SumOverFiles([p \in DOMAIN analysis.Files |-> FileActiveLineCount(analysis.Files[p])],
                 DOMAIN analysis.Files)

CoveredLineCount(analysis) ==
    SumOverFiles([p \in DOMAIN analysis.Files |-> FileCoveredLineCount(analysis.Files[p])],
                 DOMAIN analysis.Files)

\* the lines GenerateLCOVReport looks at for a function: startLine up to, not
\* including, endLine (1-based line numbers)
FunctionLines(file, fn) ==
    LET startLine == SearchLine(file.CumulativeOffsetByLine, fn.Src.Start)
        endLine == SearchLine(file.CumulativeOffsetByLine, fn.Src.Start + fn.Src.Length)
    IN  startLine..(endLine - 1)

FunctionHit(file, fn) ==
    IF \E i \in FunctionLines(file, fn) : file.Lines[i].IsActive /\ file.Lines[i].IsCovered
    THEN 1 ELSE 0

LCOVRecord(file) ==
    LET activeLines == {i \in 1..Len(file.Lines) : file.Lines[i].IsActive}
        Named(fn) == fn.Name # ""
        fns == SelectSeq(file.Functions, Named)
    IN  [SF |-> file.Path,
         DA |-> [i \in activeLines |->
                    IF file.Lines[i].IsCovered THEN file.Lines[i].SuccessHitCount ELSE 0],
         FN |-> [j \in 1..Len(fns) |->
                    [line |-> SearchLine(file.CumulativeOffsetByLine, fns[j].Src.Start),
                     name |-> fns[j].Name]],
         FNDA |-> [j \in 1..Len(fns) |-> [hit |-> FunctionHit(file, fns[j]), name |-> fns[j].Name]]]

\* SortedFiles: the files by path
SortedFiles(analysis) ==
    LET Present(p) == p \in DOMAIN analysis.Files
        paths == SelectSeq(SourcePaths, Present)
    IN  [i \in 1..Len(paths) |-> analysis.Files[paths[i]]]

GenerateLCOVReport(analysis) ==
    [i \in 1..Len(SortedFiles(analysis)) |-> LCOVRecord(SortedFiles(analysis)[i])]

SourceInit ==
    /\ sphase = "compiled"
    /\ \E k \in 0..MaxSourceMapLen : \E elements \in [1..k -> SourceMapElements] :
           sourceMap = SourceMapOf(elements)
    /\ sourceCodeCached = TRUE
    /\ filteredMap = <<>>
    /\ sourceAnalysis = [Files |-> NoFiles]
    /\ analysisErr = NULL
    /\ lcovReport = <<>>

\* AnalyzeSourceCoverage(compilations, coverageMaps); succHitCounts and
\* revertHitCounts are what determineLinesCovered made of the coverage maps
AnalyzeSourceCoverage(cached, succHitCounts, revertHitCounts) ==
    /\ sphase = "compiled"
    /\ sphase' = "analyzed"
    /\ sourceCodeCached' = cached
    /\ IF ~cached
       THEN /\ analysisErr' = "code was not cached"
            /\ UNCHANGED <<filteredMap, sourceAnalysis>>
       ELSE \E runtimeSourceMap \in {filterSourceMaps(SourceIdToPath, sourceMap)} :
            \E init \in {analyzeContractSourceCoverage(SourceIdToPath, NewSourceFiles,
                            filterSourceMaps(SourceIdToPath, <<>>), {}, {}, 1)} :
            \E r \in {IF init.err # NULL THEN init
                      ELSE analyzeContractSourceCoverage(SourceIdToPath, init.Files,
                               runtimeSourceMap, succHitCounts, revertHitCounts, 1)} :
               /\ filteredMap' = runtimeSourceMap
               /\ analysisErr' = r.err
               /\ sourceAnalysis' = IF r.err = NULL THEN [Files |-> r.Files]
                                    ELSE [Files |-> NoFiles]
    /\ UNCHANGED <<sourceMap, lcovReport>>

GenerateLCOVReportCall ==
    /\ sphase = "analyzed"
    /\ analysisErr = NULL
    /\ sphase' = "reported"
    /\ lcovReport' = GenerateLCOVReport(sourceAnalysis)
    /\ UNCHANGED <<sourceMap, sourceCodeCached, filteredMap, sourceAnalysis, analysisErr>>

SourceNext ==
    \/ \E succHitCounts \in SUBSET (0..(Len(sourceMap) - 1)),
          revertHitCounts \in SUBSET (0..(Len(sourceMap) - 1)) :
           AnalyzeSourceCoverage(TRUE, succHitCounts, revertHitCounts)
    \/ AnalyzeSourceCoverage(FALSE, {}, {})
    \/ GenerateLCOVReportCall

(***************************************************************************)
(* The earlier shrinkCallSequence of the worker: greedy deletion of one     *)
(* element at a time.                                                       *)
(***************************************************************************)
MaxGreedyLen == 3

\* the calls a sequence handed to the shrinker is made of
GreedyCalls ==
    {CorpusElement(1), CorpusElement(2), [CorpusElement(1) EXCEPT !.From = Senders[2]]}

\* ExecuteOnChain's pre-step on every element: the call is filled from the
\* chain's properties as they are when its turn comes
ExecuteOnChain(sequence) ==
    [k \in 1..Len(sequence) |->
        FillFromTestChainProperties(sequence[k], SetupHeadBlockNumber + k - 1)]

\* a sequence as testNextCallSequence executed it and hands it to the shrinker
ExecutedSequences ==
    UNION {{ExecuteOnChain(s) : s \in [1..n -> GreedyCalls]} : n \in 0..MaxGreedyLen}

NoGreedy ==
    [pc |-> NULL, callSequence |-> <<>>, optimizedSequence |-> <<>>, i |-> 0,
     iterations |-> 0, accepted |-> {}, verified |-> 0, reported |-> <<>>,
     sequence |-> <<>>, err |-> NULL, cancelled |-> FALSE]

\* shrinkCallSequence is entered: optimizedSequence := callSequence.Clone(), i := 0
GreedyInit ==
    \E callSequence \in ExecutedSequences :
        greedy = [NoGreedy EXCEPT !.pc = "loop", !.callSequence = callSequence,
                                  !.optimizedSequence = Clone(callSequence)]

NextIndex_Stuck(i, valid) == i

\* the index after an iteration: it advances unless the candidate was accepted
NextIndex(i, valid) == IF valid THEN i ELSE i + 1

GreedyOutcomes ==
    {"executed", "execution error", "context done", "verifier error", "revert error"}

\* one iteration of the loop: the candidate without the element at i is
\* executed and, unless the execution fails or the context is done, verified;
\* verifierSays is what the verifier returns when it is called
ShrinkIteration(outcome, verifierSays) ==
    /\ greedy.pc = "loop"
    /\ greedy.i < Len(greedy.optimizedSequence)
    /\ LET possibleShrunkSequence == RemoveAt(Clone(greedy.optimizedSequence), greedy.i)
           testedPossibleShrunkSequence == ExecuteOnChain(possibleShrunkSequence)
           called == Len(testedPossibleShrunkSequence) > 0
           valid == called /\ verifierSays
           counted == [greedy EXCEPT !.iterations = @ + 1]
       IN  IF outcome = "execution error"
              \/ (outcome = "verifier error" /\ called)
              \/ outcome = "revert error"
           THEN greedy' = [counted EXCEPT !.pc = "returned", !.err = outcome,
                                          !.verified = IF outcome = "revert error" /\ called
                                                       THEN @ + 1 ELSE @]
           ELSE IF outcome = "context done"
           THEN greedy' = [counted EXCEPT !.pc = "returned", !.cancelled = TRUE]
           ELSE greedy' =
                    [counted EXCEPT
                        !.verified = IF called THEN @ + 1 ELSE @,
                        !.accepted = IF valid
                                     THEN @ \cup {testedPossibleShrunkSequence} ELSE @,
                        !.optimizedSequence = IF valid
                                              THEN testedPossibleShrunkSequence ELSE @,
                        !.i = NextIndex(@, valid)]

\* after the loop: the result is reported to the FinishedCallback and returned
ShrinkFinish(callbackFails) ==
    /\ greedy.pc = "loop"
    /\ greedy.i >= Len(greedy.optimizedSequence)
    /\ greedy' = [greedy EXCEPT !.pc = "returned",
                                !.reported = Append(@, greedy.optimizedSequence),
                                !.err = IF callbackFails THEN "callback error" ELSE NULL,
                                !.sequence = IF callbackFails THEN <<>>
                                             ELSE greedy.optimizedSequence]

GreedyNext ==
    \/ \E outcome \in GreedyOutcomes, verifierSays \in BOOLEAN :
           ShrinkIteration(outcome, verifierSays)
    \/ \E callbackFails \in BOOLEAN : ShrinkFinish(callbackFails)

\*SPECS
(***************************************************************************)
(* Specifications.                                                         *)
(***************************************************************************)
TracerIdle ==
    /\ TracerInit

ElemIdle ==
    /\ deployedContracts = EmptyMap
    /\ stateChangingMethods = <<>>
    /\ pureMethods = <<>>
    /\ valueSetAddresses = {}
    /\ testingConfig = [TestAllContracts |-> FALSE, StopOnFailedContractMatching |-> TRUE,
                        TestViewMethods |-> FALSE]
    /\ maxBlockNumberDelay = 0
    /\ maxBlockTimestampDelay = 0
    /\ eventResult = NULL
    /\ lastElement = NoElement

DetIdle ==
    /\ detRuns = NULL
    /\ detOut = NULL

GenIdle ==
    /\ config = NULL
    /\ callSequenceLength = 0
    /\ corpusSequences = <<>>
    /\ unexecutedQueue = <<>>
    /\ baseSequence = <<>>
    /\ fetchIndex = 0
    /\ prefetchModifyCallFunc = NULL
    /\ generatorPanic = FALSE
    /\ genResult = NoGenResult
    /\ genCall = NoGenCall

WorkerIdle ==
    /\ wpc = NULL
    /\ ctxDone = FALSE
    /\ chain = <<>>
    /\ testingBaseBlockNumber = 0
    /\ sequencesTested = 0
    /\ workerResetLimit = 0
    /\ shrinkLimitConfig = 0
    /\ workerMetrics = [sequencesTested |-> 0, shrinking |-> FALSE]
    /\ exec = NoExecution
    /\ isNewSequence = FALSE
    /\ shrinkCallSequenceRequests = <<>>
    /\ tncsResult = NoCallResult
    /\ tscsResult = NoCallResult
    /\ shrinkResult = NoCallResult
    /\ runResult = NoCallResult
    /\ shrink = NoShrink
    /\ workerLog = <<>>
    /\ testNextCalls = 0
    /\ revertFailed = FALSE

SourceIdle ==
    /\ sphase = NULL
    /\ sourceMap = <<>>
    /\ sourceCodeCached = FALSE
    /\ filteredMap = <<>>
    /\ sourceAnalysis = [Files |-> NoFiles]
    /\ analysisErr = NULL
    /\ lcovReport = <<>>

GreedyIdle == greedy = NoGreedy

InitTracer == TracerInit /\ ElemIdle /\ DetIdle /\ GenIdle /\ WorkerIdle /\ SourceIdle /\ GreedyIdle

NextTracer == TracerNext /\ UNCHANGED <<elemVars, detVars, genVars, workerVars, sourceVars, greedyVars>>

SpecTracer == InitTracer /\ [][NextTracer]_vars

InitElem == ElemInit /\ TracerIdle /\ DetIdle /\ GenIdle /\ WorkerIdle /\ SourceIdle /\ GreedyIdle

NextElem == ElemNext /\ UNCHANGED <<tracerVars, detVars, genVars, workerVars, sourceVars, greedyVars>>

SpecElem == InitElem /\ [][NextElem]_vars

InitDet == DetInit /\ TracerIdle /\ ElemIdle /\ GenIdle /\ WorkerIdle /\ SourceIdle /\ GreedyIdle

NextDet == DetNext /\ UNCHANGED <<tracerVars, elemVars, genVars, workerVars, sourceVars, greedyVars>>

SpecDet == InitDet /\ [][NextDet]_vars

InitGen == GenInit /\ (GenElemInit \/ GenElemNoMethodsInit) /\ TracerIdle /\ DetIdle /\ WorkerIdle /\ SourceIdle /\ GreedyIdle

NextGen == GenNext /\ UNCHANGED <<tracerVars, elemVars, detVars, workerVars, sourceVars, greedyVars>>

SpecGen == InitGen /\ [][NextGen]_vars

InitWorker == WorkerInit /\ WorkerGenInit /\ GenElemInit /\ TracerIdle /\ DetIdle /\ SourceIdle /\ GreedyIdle

NextWorker == WorkerNext /\ UNCHANGED <<tracerVars, elemVars, detVars, sourceVars, greedyVars>>

SpecWorker == InitWorker /\ [][NextWorker]_vars

InitSource == SourceInit /\ TracerIdle /\ ElemIdle /\ DetIdle /\ GenIdle /\ WorkerIdle /\ GreedyIdle

NextSource == SourceNext /\ UNCHANGED <<tracerVars, elemVars, detVars, genVars, workerVars, greedyVars>>

SpecSource == InitSource /\ [][NextSource]_vars

InitGreedy == GreedyInit /\ TracerIdle /\ ElemIdle /\ DetIdle /\ GenIdle /\ WorkerIdle /\ SourceIdle

NextGreedy == GreedyNext /\ UNCHANGED <<tracerVars, elemVars, detVars, genVars, workerVars, sourceVars>>

SpecGreedy == InitGreedy /\ [][NextGreedy]_vars


(***************************************************************************)
(* Claims about the coverage tracer (checked under SpecTracer).            *)
(***************************************************************************)
\* the destination of a JUMPI step as the EVM defines it: the top of the stack when
\* the condition is non-zero (taken), pc + 1 when it is zero (fall-through)
JumpiDestination(pc, top, cond) ==
    IF ~IsZero(cond) THEN top ELSE AddOne(NewInt(pc))

\* C4: for a JUMPI step the tracer records as destination the top-of-stack value
\* when the condition is non-zero, and pc + 1 when the condition is zero.
C4_JumpiRecordsTakenDestination ==
    lastStep.op = "JUMPI" =>
        lastStep.marker =
            Marker(lastStep.pc, JumpiDestination(lastStep.pc, lastStep.top, lastStep.cond))

\* a frame is clean when it exited without error and so did all of its ancestors
RECURSIVE CleanFrame(_)
CleanFrame(f) ==
    /\ frameLog[f].status = "ok"
    /\ frameLog[f].parent = 0 \/ CleanFrame(frameLog[f].parent)

RECURSIVE SumHits(_)
SumHits(fs) ==
    IF fs = {} THEN EmptyBag
    ELSE LET f == CHOOSE x \in fs : TRUE
         IN  frameLog[f].hits (+) SumHits(fs \ {f})

CleanFrames == {f \in 1..Len(frameLog) : CleanFrame(f)}

C7_SameSeedSameSequence == detOut[1] = detOut[2]

\* C8: every element generateNewElement produces has
\* block_number_delay <= block_timestamp_delay, and a number delay of 0 when the
\* sampled timestamp delay is 0.
C8_NumberDelayWithinTimestampDelay ==
    lastElement.ok =>
        /\ lastElement.element.BlockNumberDelay <= lastElement.element.BlockTimestampDelay
        /\ lastElement.raw.timestamp = 0 => lastElement.element.BlockNumberDelay = 0

\* an element whose raw number delay exceeded a non-zero timestamp delay
C8_Witness ==
    /\ lastElement.ok
    /\ lastElement.raw.timestamp > 0
    /\ lastElement.raw.number > lastElement.raw.timestamp

\* the strategies whose selection weight changes when one configured weight is
\* set to zero
StrategiesDisabledBy(field) ==
    LET before == NewCallSequenceGenerator(config)
        after == NewCallSequenceGenerator([config EXCEPT ![field] = 0])
    IN  {i \in 1..ChoiceCount(before) : before[i].weight # after[i].weight}

\* C9: the chooser registers nine strategies and every configured weight is the
\* weight of exactly one of them: setting a (non-zero) configured weight to zero
\* changes the selection weight of exactly one strategy.
C9_EachWeightDisablesOneStrategy ==
    /\ ChoiceCount(NewCallSequenceGenerator(config)) = 9
    /\ \A field \in WeightFields :
           config[field] > 0 => Cardinality(StrategiesDisabledBy(field)) = 1

\* C10: with a call sequence length of zero InitializeNextSequence neither
\* panics nor returns an error, and the PopSequenceElement that follows returns
\* a null element.
C10_ZeroLengthInitializeSucceeds ==
    callSequenceLength = 0 =>
        /\ ~generatorPanic
        /\ genResult.err = NULL
        /\ genResult.op = "PopSequenceElement" => IsNil(genResult.element)

\* C1: whenever testNextCallSequence has returned, the chain's head block number
\* is testingBaseBlockNumber (here even granting that no revert has failed).
C1_HeadAtBaseAfterTestNext ==
    (wpc = "testNextCallSequence returned" /\ ~revertFailed) =>
        HeadBlockNumber(chain) = testingBaseBlockNumber

\* C2: once a deferred RevertToBlockNumber has failed, the failure is on its way
\* to the caller: the function that just returned reports an error, and run
\* returns (false, error).
C2_FailedRevertIsReturned ==
    revertFailed =>
        \/ wpc = "testNextCallSequence returned" /\ tncsResult.err # NULL
        \/ wpc = "testShrunkenCallSequence returned" /\ tscsResult.err # NULL
        \/ wpc = "shrinkCallSequence returned" /\ shrinkResult.err # NULL
        \/ wpc = "returned" /\ runResult.err # NULL /\ ~runResult.cancelled

\* C3: when run returns without cancellation and without error, it has called
\* testNextCallSequence exactly WorkerResetLimit times.
C3_RunTestsExactlyLimit ==
    (wpc = "returned" /\ ~ctxDone /\ ~revertFailed
        /\ runResult.err = NULL /\ ~runResult.cancelled) =>
        testNextCalls = workerResetLimit

\* C6: when shrinkCallSequence returns a sequence, the sequence is no longer
\* than the original, it is the original or a candidate that
\* testShrunkenCallSequence accepted, and (the chain having been reverted before
\* every test) the request's verifier holds on it.
C6_ShrunkenSequenceIsVerified ==
    (wpc = "shrinkCallSequence returned" /\ shrinkResult.err = NULL) =>
        /\ Len(shrinkResult.sequence) <= Len(shrink.callSequence)
        /\ \/ shrinkResult.sequence = shrink.callSequence
           \/ shrinkResult.sequence \in shrink.accepted
        /\ ~revertFailed =>
               VerifierFunction(CurrentRequest.VerifierFunction, shrinkResult.sequence)

\* shrinkCallSequence has returned an accepted candidate shorter than the original
C6_Witness ==
    /\ wpc = "shrinkCallSequence returned"
    /\ shrinkResult.err = NULL
    /\ ~revertFailed
    /\ Len(shrinkResult.sequence) < Len(shrink.callSequence)
    /\ shrinkResult.sequence \in shrink.accepted

\* C11: a corpus without mutable sequences never makes InitializeNextSequence
\* fail.  Called on an empty corpus (and an empty unexecuted queue) it returns
\* (new, no error) with every slot a hole, whatever NewSequenceProbability is,
\* and runs no strategy; and whatever other workers add to the corpus before its
\* emptiness test or between that test and a strategy's sampling, every return
\* is without error (and for a sequence length of at least one, without crash).
C11_EmptyCorpusNeverFails ==
    /\ genResult.op = "InitializeNextSequence" => genResult.err = NULL
    /\ callSequenceLength >= 1 => ~generatorPanic
    /\ (genResult.op = "InitializeNextSequence"
            /\ genCall.corpusAtCheck = 0 /\ genCall.queueAtCheck = 0) =>
           /\ genResult.isNew
           /\ genResult.strategy = NoStrategy
           /\ prefetchModifyCallFunc = NULL
           /\ Len(genCall.source) = callSequenceLength
           /\ \A i \in 1..Len(genCall.source) : IsNil(genCall.source[i])

\* InitializeNextSequence has returned from an empty corpus with a
\* NewSequenceProbability of zero
C11_Witness ==
    /\ genResult.op = "InitializeNextSequence"
    /\ genCall.corpusAtCheck = 0
    /\ genCall.queueAtCheck = 0
    /\ config.NewSequenceProbability = 0
    /\ callSequenceLength >= 1
    /\ genResult.isNew

\* C12: a call of InitializeNextSequence that finds the unexecuted queue
\* non-empty takes the queue's first sequence: it returns 'not new', the base
\* sequence is that sequence verbatim, no prefetch hook is installed and no
\* strategy chosen, and PopSequenceElement yields the sequence's elements in
\* order with their input values unchanged (only stamped from the chain).
C12_UnexecutedSequenceVerbatim ==
    (genResult.op # NULL /\ genCall.queueAtCheck > 0) =>
        /\ ~genResult.isNew
        /\ genResult.strategy = NoStrategy
        /\ prefetchModifyCallFunc = NULL
        /\ genCall.source = genCall.queueHead
        /\ Len(unexecutedQueue) = genCall.queueAtCheck - 1
        /\ Len(genCall.yielded) <= Len(genCall.queueHead)
        /\ \A i \in 1..Len(genCall.yielded) :
               genCall.yielded[i] =
                   FillFromTestChainProperties(genCall.queueHead[i], GenChainNonce)

\* every element of an unexecuted sequence of three calls has been popped
C12_Witness ==
    /\ genCall.queueAtCheck > 0
    /\ Len(genCall.queueHead) = 3
    /\ Len(genCall.yielded) = 3
    /\ genResult.op = "PopSequenceElement"
    /\ IsNil(genResult.element)

\* a poll of the context by the worker has found it done
ObservedDone == \E i \in 1..Len(workerLog) : workerLog[i][1] = "CheckContextDone"

\* C13: once the worker has found the context done, run returns cancelled =
\* true with a nil error, whatever the worker was doing and whatever the value
\* of sequencesTested relative to the worker reset limit (returns that carry
\* an error of the chain, the corpus or a callback are left aside).
C13_CancelledRunReturnsTrue ==
    (wpc = "returned" /\ ObservedDone /\ runResult.err = NULL) => runResult.cancelled

CorpusRecords == {"CheckSequenceCoverageAndUpdate", "AddTestResultCallSequence"}

\* C14: after the worker has found the context done, it makes no further call
\* of CheckSequenceCoverageAndUpdate or AddTestResultCallSequence before run
\* returns, also when the context is cancelled while a request with
\* RecordResultInCorpus set is being shrunk.
C14_NothingRecordedAfterCancellation ==
    \A i, j \in 1..Len(workerLog) :
        (i < j /\ workerLog[i][1] = "CheckContextDone") => workerLog[j][1] \notin CorpusRecords

\* the calls of shrinkCallSequence's epilogue for the request being shrunk
ShrinkEpilogue ==
    (IF CurrentRequest.RecordResultInCorpus
     THEN <<<<"AddTestResultCallSequence", 1 + workerMetrics.sequencesTested>>>>
     ELSE <<>>)
    \o <<<<"RevertToBlockNumber", testingBaseBlockNumber>>,
         <<"FinishedCallback", testingBaseBlockNumber>>,
         <<"RevertToBlockNumber", testingBaseBlockNumber>>>>

\* C15: after its loops, on the non-error path, shrinkCallSequence makes these
\* calls in this order, each once: AddTestResultCallSequence with weight
\* 1 + sequencesTested iff the request has RecordResultInCorpus set, a revert to
\* the testing base block, the finished-callback (which finds the head at the
\* base block), a second revert; it then returns the optimized sequence with
\* the head at the base block.
C15_ShrinkEpilogueOrder ==
    [][(wpc = "shrinkCallSequence finish" /\ wpc' = "shrinkCallSequence returned"
            /\ shrinkResult'.err = NULL) =>
           /\ shrinkResult'.returned
           /\ workerLog' = workerLog \o ShrinkEpilogue
           /\ HeadBlockNumber(chain') = testingBaseBlockNumber
           /\ shrinkResult'.sequence = shrink.optimizedSequence]_vars

\* shrinkCallSequence has returned a sequence for a request with
\* RecordResultInCorpus set after at least one iteration of its second loop
C15_Witness ==
    /\ wpc = "shrinkCallSequence returned"
    /\ shrinkResult.returned
    /\ shrinkResult.err = NULL
    /\ CurrentRequest.RecordResultInCorpus
    /\ shrink.shrinkIteration > 0
    /\ Len(shrinkResult.sequence) > 0

\* C16: a sequence of one call that enters the shrinker, also when that call
\* reverted, is returned as a sequence of one call: shrinkCallSequence never
\* returns an empty sequence for a non-empty input.
C16_SingleCallStaysSingle ==
    /\ (wpc = "shrinkCallSequence returned" /\ shrinkResult.err = NULL
            /\ Len(shrink.callSequence) = 1) => Len(shrinkResult.sequence) = 1
    /\ (wpc = "shrinkCallSequence returned" /\ shrinkResult.err = NULL
            /\ Len(shrink.callSequence) > 0) => Len(shrinkResult.sequence) > 0
    /\ (shrink.stage # NULL /\ Len(shrink.callSequence) > 0) =>
           Len(shrink.optimizedSequence) > 0

\* the shrinker has tested the empty candidate left by removing the single
\* reverted call, gone through its second loop and returned
C16_Witness ==
    /\ wpc = "shrinkCallSequence returned"
    /\ shrinkResult.err = NULL
    /\ Len(shrink.callSequence) = 1
    /\ shrink.callSequence[1].ChainReference = "failed"
    /\ shrink.shrinkIteration > 0
    /\ Len(shrinkResult.sequence) = 1

\* C17: for a call sequence length N >= 1 and corpus sequences of length >= 1,
\* no strategy call indexes out of range or calls rand.Intn with a bound below
\* 1 (the generator does not crash), every strategy leaves the base sequence
\* with length N, Expansion leaves it untouched (it grows its local slice
\* only), and the two lengths a splice or interleave takes sum to at most N.
C17_StrategiesStayWithinBase ==
    callSequenceLength >= 1 =>
        /\ ~generatorPanic
        /\ genCall.func # NULL =>
               /\ Len(baseSequence) = callSequenceLength
               /\ Len(genCall.source) = callSequenceLength
               /\ genCall.taken[1] + genCall.taken[2] <= callSequenceLength
               /\ genCall.func = "Expansion" =>
                      \A i \in 1..Len(genCall.source) : IsNil(genCall.source[i])

\* a splice has taken a head and a tail that fill the base sequence exactly
C17_Witness ==
    /\ callSequenceLength >= 2
    /\ genCall.func = "SpliceAtRandom"
    /\ genCall.taken[1] >= 1
    /\ genCall.taken[2] >= 1
    /\ genCall.taken[1] + genCall.taken[2] = callSequenceLength
    /\ ~IsNil(baseSequence[callSequenceLength])

\* the number of slots of the base sequence that hold an element
Written(sequence) == Cardinality({k \in 1..Len(sequence) : ~IsNil(sequence[k])})

C19_MarkerDecodesToRecordedPair ==
    lastStep.op \in {"JUMP", "JUMPI"} =>
        /\ ExecFlagsSrc(lastStep.marker) = lastStep.pc
        /\ ExecFlagsDst(lastStep.marker) =
               Uint64(StatePos(lastStep.pc, lastStep.op, lastStep.top, lastStep.cond))

\* C20: every weight the worker passes to the corpus, in
\* CheckSequenceCoverageAndUpdate and in AddTestResultCallSequence, is 1 + the
\* number of sequences its slot has finished testing; that number goes up by
\* one exactly when run completes a sequence, so the weight is at least 1 and
\* never decreases.
C20_WeightIsOnePlusSequencesTested ==
    [][/\ workerMetrics'.sequencesTested >= workerMetrics.sequencesTested
       /\ workerMetrics'.sequencesTested # workerMetrics.sequencesTested =>
              /\ workerMetrics'.sequencesTested = workerMetrics.sequencesTested + 1
              /\ sequencesTested' = sequencesTested + 1
              /\ wpc' = "run"
       /\ \A i \in (Len(workerLog) + 1)..Len(workerLog') :
              workerLog'[i][1] \in CorpusRecords =>
                  /\ workerLog'[i][2] = 1 + workerMetrics'.sequencesTested
                  /\ workerLog'[i][2] >= 1]_vars

\* after at least one finished sequence the shrinker has recorded its result
\* with the weight of the sequences finished so far
C20_Witness ==
    /\ wpc = "shrinkCallSequence returned"
    /\ sequencesTested >= 1
    /\ workerMetrics.sequencesTested > sequencesTested
    /\ \E i \in 1..Len(workerLog) :
           workerLog[i] = <<"AddTestResultCallSequence", 1 + workerMetrics.sequencesTested>>

\* C21: every sequence the generator yields between two calls of
\* InitializeNextSequence has at most call_sequence_length elements, whether
\* it was generated fresh, derived by a strategy or taken from the unexecuted
\* queue (stated for the lengths at which the generator works at all, N >= 1).
C21_YieldedLengthBounded ==
    callSequenceLength >= 1 => Len(genCall.yielded) <= callSequenceLength

\* the element calls one of the methods of the list
SelectedFrom(element, methods) ==
    \E i \in 1..Len(methods) :
        /\ methods[i].Address = element.To
        /\ methods[i].Method.name = element.Method

\* C22: generateNewElement returns an error exactly when both method lists
\* are empty; it selects a pure method whenever only pure methods exist and a
\* state-changing method whenever no pure method exists; and for every draw
\* it indexes a non-empty list (rand.Intn is never called with 0).
C22_MethodSelectedFromNonEmptyList ==
    lastElement.called =>
        /\ lastElement.panic # "invalid argument to Intn"
        /\ (lastElement.err = "no methods to call")
               = (Len(stateChangingMethods) = 0 /\ Len(pureMethods) = 0)
        /\ (lastElement.ok /\ Len(stateChangingMethods) = 0) =>
               SelectedFrom(lastElement.element, pureMethods)
        /\ (lastElement.ok /\ Len(pureMethods) = 0) =>
               SelectedFrom(lastElement.element, stateChangingMethods)

\* a call that rolled the 1-in-100 case while no pure method was tracked
C22_Witness ==
    /\ lastElement.called
    /\ lastElement.ok
    /\ Len(stateChangingMethods) > 0
    /\ Len(pureMethods) = 0
    /\ testingConfig.TestViewMethods
    /\ \E d \in ElemDraws :
           /\ Intn(d.roll, 100) = 0
           /\ lastElement = [called |-> TRUE]
                  @@ generateNewElement(stateChangingMethods, pureMethods,
                                        maxBlockNumberDelay, maxBlockTimestampDelay, d)

\* C23: once a test function returned an error for the prefix ending at
\* element k, nothing more is executed and no further test function is called
\* (the log ends with the failing call and never grows), testNextCallSequence
\* returns no sequence and no shrink requests, run returns (false, that error),
\* and no other sequence is tested.
C23_TestFunctionErrorAborts ==
    [][exec'.err = "test function error" =>
           /\ wpc' \in {"testNextCallSequence return", "testNextCallSequence returned",
                        "returned"}
           /\ workerLog'[Len(workerLog')][1] = "testFunc error"
           /\ tncsResult'.returned =>
                  tncsResult' = CallResult(<<>>, <<>>, FALSE, FALSE, "test function error")
           /\ wpc' = "returned" =>
                  runResult' = CallResult(<<>>, <<>>, FALSE, FALSE, "test function error")
           /\ exec.err = "test function error" =>
                  /\ exec'.executed = exec.executed
                  /\ chain' = chain
                  /\ workerLog' = workerLog
                  /\ testNextCalls' = testNextCalls
                  /\ sequencesTested' = sequencesTested]_vars

\* run returned the error the first test function gave for the first of two
\* elements
C23_Witness ==
    /\ wpc = "returned"
    /\ runResult.err = "test function error"
    /\ Len(exec.executed) = 1
    /\ Len(baseSequence) = 2
    /\ workerLog[Len(workerLog)] = <<"testFunc error", 1>>

\* a <= b for uint64 delays
Le64(a, b) == b = MaxUint64 \/ (a # MaxUint64 /\ a <= b)

\* C24: for every configured pair of maximum delays in the uint64 range,
\* 0 and 2^64 - 1 included, generateNewElement on a non-empty method list
\* completes and yields a block number delay in [0, max_block_number_delay]
\* and a block timestamp delay in [0, max_block_timestamp_delay].
C24_DelaysWithinConfiguredMaxima ==
    (lastElement.called /\ (Len(stateChangingMethods) > 0 \/ Len(pureMethods) > 0)) =>
        /\ lastElement.panic = NULL
        /\ lastElement.ok
        /\ Le64(lastElement.element.BlockNumberDelay, maxBlockNumberDelay)
        /\ Le64(lastElement.element.BlockTimestampDelay, maxBlockTimestampDelay)

\* the positions of the calls that reverted
Reverting(sequence) == {i \in 1..Len(sequence) : sequence[i].ChainReference = "failed"}

RECURSIVE WithoutReverts(_)
WithoutReverts(sequence) ==
    IF sequence = <<>> THEN <<>>
    ELSE IF Head(sequence).ChainReference = "failed" THEN WithoutReverts(Tail(sequence))
    ELSE <<Head(sequence)>> \o WithoutReverts(Tail(sequence))

\* C25: the first step of shrinkCallSequence removes the reverting calls one
\* by one and keeps each removal: when a sequence with several reverting
\* calls, each of which can be removed without losing the failure, reaches
\* the alternating loop (uncancelled, with iterations left), the optimized
\* sequence contains no reverting call.
C25_RevertsRemovedBeforeLoop ==
    ( /\ wpc = "shrink loop"
      /\ shrink.stage = "reverts"
      /\ ~shrinkingEnded(shrink, ctxDone)
      /\ Cardinality(Reverting(shrink.callSequence)) >= 2
      /\ \A i \in Reverting(shrink.callSequence) :
             VerifierFunction(CurrentRequest.VerifierFunction,
                              RemoveAt(shrink.callSequence, i - 1))
      /\ VerifierFunction(CurrentRequest.VerifierFunction,
                          WithoutReverts(shrink.callSequence)) )
    => Reverting(shrink.optimizedSequence) = {}

\* C26: each candidate tested in the alternating loop consumes exactly one
\* iteration of the budget: with shrink_limit = L, k iterations consumed by the
\* removal of reverting calls and no cancellation, the loop has tested exactly
\* L - k candidates when it ends.
C26_LoopTestsRemainingBudget ==
    (wpc = "shrinkCallSequence finish" /\ ~ctxDone /\ shrinkLimitConfig > 0) =>
        shrink.shrinkIteration = shrinkLimitConfig - shrink.i

\* C27: shrinkCallSequence's loops are bounded by shrink_limit for every limit
\* and sequence length: the iterations of both loops together and the calls of
\* testShrunkenCallSequence never exceed shrink_limit, and the uint64 counter
\* shrinkLimit never wraps below zero.
C27_ShrinkingBoundedByLimit ==
    /\ shrink.shrinkLimit >= 0
    /\ shrink.tests <= shrinkLimitConfig
    /\ shrink.i + shrink.shrinkIteration <= shrinkLimitConfig
    /\ shrink.i <= Len(shrink.callSequence)

\* shrinking ended, uncancelled, with the whole budget used by both loops
C27_Witness ==
    /\ wpc = "shrinkCallSequence finish"
    /\ ~ctxDone
    /\ shrink.i > 0
    /\ shrink.shrinkIteration > 0
    /\ shrink.tests = shrinkLimitConfig
    /\ shrink.shrinkLimit = 0

\* what executionCheckFunc does for one executed element, in order: the prefix
\* is submitted to the corpus, every test function is called, the metrics are
\* updated
ElementLog ==
    <<(<<"CheckSequenceCoverageAndUpdate", getNewCorpusCallSequenceWeight(workerMetrics)>>)>>
    \o [i \in 1..Len(CallSequenceTestFuncs) |-> <<"testFunc", i>>]
    \o <<(<<"metrics", 0>>)>>

\* the shrink requests of all test functions on the blocks
RECURSIVE AllRequests(_, _)
AllRequests(i, blocks) ==
    IF i > Len(CallSequenceTestFuncs) THEN <<>>
    ELSE callSequenceTestFunc(CallSequenceTestFuncs[i], blocks) \o AllRequests(i + 1, blocks)

\* an element was executed by testNextCallSequence in this step
ElementExecuted ==
    /\ wpc = "executing"
    /\ exec.mode = "testNextCallSequence"
    /\ Len(exec'.executed) > Len(exec.executed)

\* the bookkeeping after the executed element: corpus, then all test
\* functions, then the metrics, with the requests of all test functions
\* collected, and no request collected before this element
ElementBookkeeping ==
    /\ Len(workerLog') >= Len(workerLog) + Len(ElementLog)
    /\ SubSeq(workerLog', Len(workerLog) + 1, Len(workerLog) + Len(ElementLog)) = ElementLog
    /\ shrinkCallSequenceRequests = <<>>
    /\ shrinkCallSequenceRequests' = AllRequests(1, chain')

\* testNextCallSequence returns in this step
TestNextReturns ==
    /\ wpc = "testNextCallSequence return"
    /\ wpc' = "testNextCallSequence returned"

\* C28 as stated: after every executed element the prefix is submitted to the
\* corpus, then every test function is called and all their requests are
\* collected, then the metrics are updated; no element is executed after one
\* with a shrink request; and the returned sequence is the executed prefix.
C28_BookkeepingAndPrefixAlways ==
    [][/\ ElementExecuted => ElementBookkeeping
       /\ TestNextReturns => tncsResult'.sequence = exec.executed]_vars

\* C28, amended: the same, for every executed element after which neither the
\* corpus nor a test function returned an error, and for every return without
\* an error and with the context not done (otherwise the later steps are
\* skipped and no sequence is returned).
C28_BookkeepingAndPrefixUnlessAborted ==
    [][/\ (ElementExecuted /\ exec'.err = NULL) => ElementBookkeeping
       /\ (TestNextReturns /\ exec.err = NULL /\ ~ctxDone) =>
              /\ tncsResult'.sequence = exec.executed
              /\ Len(tncsResult'.requests) = Len(shrinkCallSequenceRequests)]_vars

\* a sequence of two executed calls was returned with the requests of two test
\* functions
C28_Witness ==
    /\ wpc = "testNextCallSequence returned"
    /\ tncsResult.err = NULL
    /\ ~ctxDone
    /\ Len(tncsResult.sequence) = 2
    /\ tncsResult.sequence = exec.executed
    /\ Len(tncsResult.requests) = 2

\* C29: when the Expansion strategy ran with at least one round, the
\* generator's base sequence afterwards holds the chosen element at additional
\* positions: it is not the sequence of empty slots the generator would hold
\* had Expansion not run.
C29_ExpansionChangesBaseSequence ==
    ( /\ genCall.pc = "idle"
      /\ genCall.func = "Expansion"
      /\ ~generatorPanic
      /\ Len(genCall.local) > callSequenceLength )
    => genCall.source # MakeCallSequence(callSequenceLength)

\* the elements PopSequenceElement may return for the slot: a fresh element
\* for a nil slot, the slot's element with the installed hook applied, or the
\* slot's element as it is when no hook is installed, each stamped from the chain
PoppedFor(slot) ==
    IF IsNil(slot)
    THEN {FillFromTestChainProperties(
              generateNewElement(stateChangingMethods, pureMethods, maxBlockNumberDelay,
                                 maxBlockTimestampDelay, d).element, GenChainNonce) :
              d \in {e \in GenElemDraws :
                        generateNewElement(stateChangingMethods, pureMethods,
                                           maxBlockNumberDelay, maxBlockTimestampDelay,
                                           e).ok}}
    ELSE IF prefetchModifyCallFunc # NULL
    THEN {FillFromTestChainProperties(prefetchModifyCallFuncMutate(slot, m), GenChainNonce) :
              m \in MutationRaws}
    ELSE {FillFromTestChainProperties(slot, GenChainNonce)}

TrackedMethods(constant) ==
    UNION {{[Address |-> a, Contract |-> deployedContracts[a],
             Method |-> ContractDefinitions[deployedContracts[a]][i]] :
                i \in {j \in 1..Len(ContractDefinitions[deployedContracts[a]]) :
                          ContractDefinitions[deployedContracts[a]][j].constant = constant}} :
           a \in DOMAIN deployedContracts}

Entries(methods) == {methods[i] : i \in 1..Len(methods)}

\* C32: after any sequence of deployment added and removed events, every
\* entry of stateChangingMethods and pureMethods targets an address now in
\* deployedContracts, with the definition recorded for it; the non-constant
\* assertion-test methods of the tracked contracts are exactly the entries of
\* stateChangingMethods; the constant ones are the entries of pureMethods when
\* TestViewMethods is enabled and pureMethods is empty otherwise; a removed
\* contract contributes no entry.
C32_MethodListsMatchDeployedContracts ==
        /\ \A m \in Entries(stateChangingMethods) \cup Entries(pureMethods) :
               /\ m.Address \in DOMAIN deployedContracts
               /\ m.Contract = deployedContracts[m.Address]
        /\ Entries(stateChangingMethods) = TrackedMethods(FALSE)
        /\ Len(stateChangingMethods) = Cardinality(TrackedMethods(FALSE))
        /\ Entries(pureMethods) =
               IF testingConfig.TestViewMethods THEN TrackedMethods(TRUE) ELSE {}
        /\ Len(pureMethods) = Cardinality(Entries(pureMethods))

\* a Token was removed while a Vault stays tracked, view methods not tested
C32_Witness ==
    /\ DOMAIN deployedContracts = {"0xA2"}
    /\ deployedContracts["0xA2"] = "Vault"
    /\ "0xA1" \notin valueSetAddresses
    /\ ~testingConfig.TestViewMethods
    /\ Len(stateChangingMethods) = 1
    /\ eventResult = [err |-> NULL]

\* C33: shrinkCallSequence reports a result on every path without an error,
\* shrink_limit = 0 and cancellation during shrinking included: the request's
\* FinishedCallback was invoked exactly once, with a non-empty sequence, which
\* is the sequence returned, and is the original sequence when no candidate
\* was accepted and an accepted candidate otherwise; it is never invoked more
\* than once.
C33_ShrinkAlwaysReportsResult ==
    /\ Len(shrink.reported) <= 1
    /\ (wpc = "shrinkCallSequence returned" /\ shrinkResult.err = NULL) =>
           /\ Len(shrink.reported) = 1
           /\ shrink.reported[1] # <<>>
           /\ shrink.reported[1] = shrinkResult.sequence
           /\ IF shrink.accepted = {}
              THEN shrink.reported[1] = shrink.callSequence
              ELSE shrink.reported[1] \in shrink.accepted

\* the original sequence was reported after a cancellation during shrinking
C33_Witness ==
    /\ wpc = "shrinkCallSequence returned"
    /\ shrinkResult.err = NULL
    /\ ctxDone
    /\ shrinkLimitConfig > 0
    /\ shrink.tests > 0
    /\ shrink.accepted = {}
    /\ shrink.reported = <<shrink.callSequence>>

\* the byte range of element e2 lies within the byte range of element e
Encloses(e, e2) ==
    /\ e.Offset <= e2.Offset
    /\ e2.Offset + e2.Length <= e.Offset + e.Length

\* an element of the source map that filterSourceMaps is to keep
KeptBySourceMapFilter(e) ==
    /\ e.SourceUnitID \in DOMAIN SourceIdToPath
    /\ ~\E x \in 1..Len(sourceMap) :
           /\ sourceMap[x] # e
           /\ sourceMap[x].SourceUnitID = e.SourceUnitID
           /\ <<sourceMap[x].Offset, sourceMap[x].Length>> # <<e.Offset, e.Length>>
           /\ Encloses(e, sourceMap[x])

\* C34: filterSourceMaps returns, in their original order, exactly the
\* elements whose source unit the compilation knows and that enclose no other
\* element of the same source unit with a different (offset, length) range;
\* filtering the result again changes nothing.
C34_FilterKeepsInnermostAndIsIdempotent ==
    (sphase \in {"analyzed", "reported"} /\ sourceCodeCached) =>
        /\ filteredMap = SelectSeq(sourceMap, KeptBySourceMapFilter)
        /\ filterSourceMaps(SourceIdToPath, filteredMap) = filteredMap

\* of two elements of one known source unit, the enclosing one was dropped
C34_Witness ==
    /\ sphase = "analyzed"
    /\ sourceCodeCached
    /\ Len(sourceMap) = 2
    /\ sourceMap[1].SourceUnitID = 0
    /\ sourceMap[2].SourceUnitID = 0
    /\ sourceMap[1].Offset < sourceMap[2].Offset
    /\ sourceMap[2].Length > 0
    /\ filteredMap = <<sourceMap[2]>>

\* the 1-based number of the line of the file that holds the byte at offset
LineHolding(file, offset) ==
    CHOOSE i \in 1..Len(file.Lines) :
        file.Lines[i].Start <= offset /\ offset < file.Lines[i].End

\* the lines of a function's definition, from the line of its first byte
\* through the line of its last byte
DefinitionLines(file, fn) ==
    LineHolding(file, fn.Src.Start)..LineHolding(file, fn.Src.Start + fn.Src.Length - 1)

\* the FNDA count the report gives for the function with this name
ReportedHit(record, name) ==
    record.FNDA[CHOOSE j \in DOMAIN record.FNDA : record.FNDA[j].name = name].hit

\* C35: in the LCOV report a named function is reported as hit (FNDA:1)
\* exactly when at least one line of its definition, from the line of its
\* first byte through the line of its last byte inclusive, is active and
\* covered; a function defined on a single line is no exception.
C35_FunctionHitIffDefinitionLineCovered ==
    sphase = "reported" =>
        \A i \in 1..Len(lcovReport) :
            LET file == sourceAnalysis.Files[lcovReport[i].SF]
            IN  \A k \in 1..Len(file.Functions) :
                    file.Functions[k].Name # "" =>
                        ((ReportedHit(lcovReport[i], file.Functions[k].Name) = 1)
                            = (\E l \in DefinitionLines(file, file.Functions[k]) :
                                  file.Lines[l].IsActive /\ file.Lines[l].IsCovered))

\* C36: after AnalyzeSourceCoverage, for every file and in total,
\* CoveredLineCount <= ActiveLineCount <= LineCount: a line is marked covered
\* or covered-reverted only if it is also marked active.
C36_CoveredWithinActiveWithinLines ==
    sphase \in {"analyzed", "reported"} =>
        /\ \A p \in DOMAIN sourceAnalysis.Files :
               /\ FileCoveredLineCount(sourceAnalysis.Files[p])
                      <= FileActiveLineCount(sourceAnalysis.Files[p])
               /\ FileActiveLineCount(sourceAnalysis.Files[p])
                      <= FileLineCount(sourceAnalysis.Files[p])
               /\ \A line \in SourceLines(sourceAnalysis.Files[p]) :
                      (line.IsCovered \/ line.IsCoveredReverted) => line.IsActive
        /\ CoveredLineCount(sourceAnalysis) <= ActiveLineCount(sourceAnalysis)
        /\ ActiveLineCount(sourceAnalysis) <= LineCount(sourceAnalysis)

\* of three lines two are active, and one of these only is covered, by a
\* reverted execution
C36_Witness ==
    /\ sphase = "analyzed"
    /\ analysisErr = NULL
    /\ LineCount(sourceAnalysis) = 3
    /\ ActiveLineCount(sourceAnalysis) = 2
    /\ CoveredLineCount(sourceAnalysis) = 1
    /\ \E line \in SourceLines(sourceAnalysis.Files["A.sol"]) :
           line.IsActive /\ line.IsCoveredReverted /\ ~line.IsCovered

\* C37: the metrics flag 'shrinking' is true only while shrinkCallSequence
\* runs its loops: whenever shrinkCallSequence has returned, with a result or
\* with an error, the flag is false.
C37_ShrinkingFlagClearedOnReturn ==
    wpc = "shrinkCallSequence returned" => ~workerMetrics.shrinking

\* the hits a map holds, over both channels and all entries
TotalHits(m) == BagCardinality(m.succ) + BagCardinality(m.rev)

\* the number of JUMP and JUMPI steps observed so far in the transaction
ObservedJumps == BagCardinality(SumHits(1..Len(frameLog)))

MutatedStrategies == 6..Len(NewCallSequenceGenerator(config))

\* InitializeNextSequence has returned, or panicked, and nothing was popped since
InitializeNextSequenceDone == genResult.op = "InitializeNextSequence" /\ genCall.pc = "idle"

\* C39: the prefetch-modify hook never leaks from one sequence to the next:
\* after every InitializeNextSequence call the hook is installed only if a
\* 'mutated' strategy was chosen and ran without error in that same call; it
\* is absent after a call that used an unexecuted sequence, produced an
\* all-fresh base, chose an 'unmodified' strategy, or failed.
C39_HookOnlyFromMutatedStrategyOfSameCall ==
    InitializeNextSequenceDone =>
        /\ prefetchModifyCallFunc # NULL =>
               /\ genResult.strategy \in MutatedStrategies
               /\ genResult.err = NULL
               /\ ~generatorPanic
               /\ genCall.queueAtCheck = 0
               /\ prefetchModifyCallFunc = "Mutate"
        /\ (\/ genCall.queueAtCheck > 0
            \/ genResult.strategy = NoStrategy
            \/ genResult.strategy \in (1..5)
            \/ genResult.err # NULL
            \/ generatorPanic) => prefetchModifyCallFunc = NULL

\* a call chose the mutated corpus-head strategy and installed the hook
C39_Witness ==
    /\ InitializeNextSequenceDone
    /\ genResult.err = NULL
    /\ genResult.strategy = 6
    /\ genCall.func = "CorpusHead"
    /\ prefetchModifyCallFunc = "Mutate"
    /\ fetchIndex = 0
    /\ Len(baseSequence) > 0

\* a sequence's calls, without the chain properties filled in before execution
CallsOf(sequence) == [k \in 1..Len(sequence) |-> [sequence[k] EXCEPT !.Nonce = 0]]

\* the elements of the sequence at the positions idx, in the sequence's order
RECURSIVE ElementsAt(_, _, _)
ElementsAt(sequence, idx, k) ==
    IF k > Len(sequence) THEN <<>>
    ELSE (IF k \in idx THEN <<sequence[k]>> ELSE <<>>) \o ElementsAt(sequence, idx, k + 1)

IsSubsequenceOf(sub, sequence) ==
    \E idx \in SUBSET (1..Len(sequence)) : ElementsAt(sequence, idx, 1) = sub

\* C40: the greedy shrinkCallSequence terminates for every input and
\* verifier: each iteration either shortens the optimized sequence or advances
\* the index, so there are at most as many iterations as the original has
\* elements; and when it returns without cancellation or error, the sequence
\* returned is a subsequence of the original's calls, in the original order,
\* and is the original or a candidate the verifier accepted.
C40_GreedyShrinkTerminatesWithSubsequence ==
    /\ greedy.pc # NULL =>
           /\ greedy.i <= Len(greedy.optimizedSequence)
           /\ greedy.iterations <= Len(greedy.callSequence)
    /\ greedy.pc = "loop" =>
           greedy.iterations + (Len(greedy.optimizedSequence) - greedy.i)
               <= Len(greedy.callSequence)
    /\ (greedy.pc = "returned" /\ greedy.err = NULL /\ ~greedy.cancelled) =>
           /\ IsSubsequenceOf(CallsOf(greedy.sequence), CallsOf(greedy.callSequence))
           /\ IF greedy.accepted = {} THEN greedy.sequence = greedy.callSequence
              ELSE greedy.sequence \in greedy.accepted
           /\ greedy.reported = <<greedy.sequence>>

\* a sequence of three calls was shrunk to its second call in three iterations
C40_Witness ==
    /\ greedy.pc = "returned"
    /\ greedy.err = NULL
    /\ ~greedy.cancelled
    /\ Len(greedy.callSequence) = 3
    /\ greedy.iterations = 3
    /\ Cardinality(greedy.accepted) = 2
    /\ CallsOf(greedy.sequence) = CallsOf(<<greedy.callSequence[2]>>)
    /\ greedy.callSequence[2] \notin {greedy.callSequence[1], greedy.callSequence[3]}
    /\ greedy.sequence # <<greedy.callSequence[2]>>

=============================================================================
